---- MODULE Spec2Model ----
(***************************************************************************)
(* Model of the vividshift assignment core:                                *)
(*   - the legacy solver distribute_work (src/src/group.rs),               *)
(*   - the pluggable strategies of the backend (balanced rotation, random, *)
(*     skill based; src/backend/src/engines/assignment),                   *)
(*   - the validators and the RuleEngine pipeline                          *)
(*     (src/backend/src/engines/validation, services/rule_engine.rs).      *)
(* One behaviour runs one of the programs; `program` says which.           *)
(***************************************************************************)
EXTENDS Integers, Sequences, FiniteSets, TLC

VARIABLES
    program,            \* "legacy" | "strategy" | "engine": which entry point this behaviour runs
    \* ---- legacy solver, group.rs ----
    names_a,            \* Vec<String>: the people of group A
    names_b,            \* Vec<String>: the people of group B
    lhistory,           \* AssignmentHistory.history: person -> last assignment
    available_a,        \* working copy of names_a
    available_b,        \* working copy of names_b
    remaining_people,   \* the combined pool after both toilets are served
    lassignments,       \* HashMap<&str, Vec<String>>: domain -> people
    ldi,                \* index into work_assignments of the loop at group.rs:146
    lpc,                \* position inside distribute_work
    \* ---- backend call: arguments shared by the strategies and the RuleEngine ----
    strategy_name,      \* the strategy asked for
    participants,       \* &[GenericEntity]
    targets,            \* &[GenericEntity]
    config,             \* StrategyConfig: parameters and validation_rules
    bhistory,           \* BalancedRotationStrategy.history: participant id -> target names
    rule_outcome,       \* what the validator registered from outside the crate returns
    \* ---- AssignmentStrategy::execute, run step by step ----
    available,          \* the shuffled pool (available_participants / shuffled_participants)
    assignments,        \* the local Vec<Assignment> being built
    ti,                 \* index of the target the loop `for target in targets` is at
    attempt,            \* loop variable of BalancedRotationStrategy::execute
    spc,                \* position inside execute
    sresult,            \* what execute returned, once spc = "done"
    \* ---- RuleEngine::execute_assignment; one engine per ValidationMode serves the call ----
    epc,                \* position inside execute_assignment
    calls,              \* the trait methods called so far, in order
    estrategy,          \* the strategy the lookup bound
    eassignments,       \* Option: the list strategy.execute returned
    eattempts,          \* attempts the strategy made inside execute
    validation_results, \* per mode: what run_validations collected
    eresult,            \* per mode: what execute_assignment returned
    \* ---- the legacy caller: perform_distribution / main ----
    cpc,                \* position inside the caller
    cattempt,           \* loop variable of `for attempt in 1..=MAX_ATTEMPTS`
    dcalls,             \* how often distribute_work was called
    final_assignments,  \* Option: the assignments the loop ended with
    save_arg,           \* Option: what db::save_assignments was given
    cresult,            \* what the caller returned
    cenv,               \* force, the Discord settings, the time since the last run, the interval
    ccalls,             \* the db:: and discord:: functions called so far, in order
    \* the history keepers (history.rs, db.rs)
    hpc,                \* "idle", "open", "done"
    hsaves,             \* the saves made so far; the clock of the database
    hrows,              \* db: the rows of the assignments table; file: every insert made
    hfile,              \* the History in assignment_history.json, by person
    fetched,            \* what fetch_history returned, and the name_to_id it was given
    \* the entity store and one call of generate_assignments (backend)
    gpc,                \* "idle", "read_participants", "read_targets", "execute", "done"
    entities,           \* EntityManager.entities: by entity type, by id
    seen,               \* every value entities has had
    writes,             \* the writes made so far
    g_participants,     \* generate_assignments: the local participants
    g_targets,          \* generate_assignments: the local targets
    handed              \* Option: the two lists given to execute_assignment

lvars == <<names_a, names_b, lhistory, available_a, available_b,
           remaining_people, lassignments, ldi, lpc>>

callvars == <<strategy_name, participants, targets, config, bhistory, rule_outcome>>

svars == <<available, assignments, ti, attempt, spc, sresult>>

evars == <<epc, calls, estrategy, eassignments, eattempts, validation_results, eresult>>

cvars == <<cpc, cattempt, dcalls, final_assignments, save_arg, cresult, cenv, ccalls>>

\* everything the backend programs own
bvars == <<callvars, svars, evars>>

hvars == <<hpc, hsaves, hrows, hfile, fetched>>

gvars == <<gpc, entities, seen, writes, g_participants, g_targets, handed>>

vars == <<program, cvars, lvars, bvars, hvars, gvars>>

----------------------------------------------------------------------------
(* Bounds of the model *)

\* largest group A handed to distribute_work
MaxA == 8
\* largest group B handed to distribute_work
MaxB == 10
\* number of rotations of a list the random source may produce
ShuffleDraws == 1
\* most participants in a call
MaxP == 2
\* most targets in a call
MaxT == 2
\* largest required_count of a target
MaxReq == 2
\* largest max_attempts parameter given to a strategy that is run step by step
MaxAttemptsParam == 2
\* most participants in a call of execute_assignment
EMaxP == 1
\* most targets in a call of execute_assignment
EMaxT == 1

----------------------------------------------------------------------------
(* Sequence helpers *)

Min(a, b) == IF a < b THEN a ELSE b

Range(s) == {s[i] : i \in 1..Len(s)}

Reverse(s) == [i \in 1..Len(s) |-> s[Len(s) + 1 - i]]

Rotate(s, r) == [i \in 1..Len(s) |-> s[((i - 1 + r) % Len(s)) + 1]]

\* Vec::drain(..k) / take(k): the first k elements
Take(s, k) == SubSeq(s, 1, k)

\* what is left after drain(..k)
Drop(s, k) == SubSeq(s, k + 1, Len(s))

\* slice::shuffle(&mut rng): any permutation may come out; the model draws from
\* the first ShuffleDraws rotations of the list and their reversals.
Shuffles(s) ==
    IF Len(s) = 0 THEN {s}
    ELSE LET R == 0..(Min(Len(s), ShuffleDraws) - 1)
         IN  {Rotate(s, r) : r \in R} \cup {Reverse(Rotate(s, r)) : r \in R}

\* slice::sort_by on a bool key, false before true; the sort is stable.
\* T: the elements whose key is true
SortFalseFirst(s, T) ==
    SelectSeq(s, LAMBDA x : x \notin T) \o SelectSeq(s, LAMBDA x : x \in T)

\* slice::sort_by with the comparison reversed: true before false, stable
SortTrueFirst(s, T) ==
    SelectSeq(s, LAMBDA x : x \in T) \o SelectSeq(s, LAMBDA x : x \notin T)

----------------------------------------------------------------------------
(* Legacy solver: src/src/group.rs *)

\* group.rs:87-95
work_assignments ==
    << [domain |-> "Parlor",    count |-> 5],
       [domain |-> "Frontyard", count |-> 3],
       [domain |-> "Backyard",  count |-> 1],
       [domain |-> "Tank",      count |-> 2],
       [domain |-> "Toilet B",  count |-> 4],
       [domain |-> "Toilet A",  count |-> 2],
       [domain |-> "Bin",       count |-> 1] >>

LDomains == {work_assignments[i].domain : i \in 1..Len(work_assignments)}

\* work_assignments.iter().find(|&&(d, _)| d == name).unwrap().1
CountOf(d) ==
    LET i == CHOOSE j \in 1..Len(work_assignments) : work_assignments[j].domain = d
    IN  work_assignments[i].count

\* AssignmentHistory::was_previously_assigned
was_previously_assigned(h, person, domain) ==
    IF person \in DOMAIN h THEN h[person] = domain ELSE FALSE

PersonA(i) == <<"A", i>>
PersonB(i) == <<"B", i>>

\* the people that may carry a history entry, and the entries they may carry
HistPeople == {PersonA(1), PersonB(1)}
HistDomains == {"Toilet A", "Toilet B", "Parlor"}

\* a history entry is a domain the person may have worked in: only group A
\* cleans Toilet A, only group B cleans Toilet B
HadDomain(p, d) == (d = "Toilet A" => p[1] = "A") /\ (d = "Toilet B" => p[1] = "B")

EmptyAssignments == [d \in LDomains |-> <<>>]

LegacyIdle ==
    /\ names_a = <<>> /\ names_b = <<>>
    /\ lhistory = <<>>
    /\ available_a = <<>> /\ available_b = <<>>
    /\ remaining_people = <<>>
    /\ lassignments = EmptyAssignments
    /\ ldi = 0
    /\ lpc = "idle"

\* the arguments of a call of distribute_work
InitLegacy ==
    /\ program = "legacy"
    /\ \E a \in 0..MaxA, b \in 0..MaxB :
          /\ names_a = [i \in 1..a |-> PersonA(i)]
          /\ names_b = [i \in 1..b |-> PersonB(i)]
    /\ \E who \in SUBSET (HistPeople \cap (Range(names_a) \cup Range(names_b))) :
          lhistory \in {h \in [who -> HistDomains] : \A p \in who : HadDomain(p, h[p])}
    /\ available_a = <<>> /\ available_b = <<>>
    /\ remaining_people = <<>>
    /\ lassignments = EmptyAssignments
    /\ ldi = 0
    /\ lpc = "start"

\* group.rs:97-110: empty map, copies of the names, both shuffled
LShuffle ==
    /\ program = "legacy" /\ lpc = "start"
    /\ available_a' \in Shuffles(names_a)
    /\ available_b' \in Shuffles(names_b)
    /\ lassignments' = EmptyAssignments
    /\ lpc' = "toilet_a"
    /\ UNCHANGED <<bvars, cvars, hvars, gvars, program, names_a, names_b, lhistory, remaining_people, ldi>>

\* group.rs:116-123 and 130-137: sort the group's list, those not in the toilet
\* last time first, and drain the first count (or all there are)
toilet_sorted(avail, h, toilet) ==
    SortFalseFirst(avail, {p \in Range(avail) : was_previously_assigned(h, p, toilet)})

toilet_people(avail, h, toilet) ==
    Take(toilet_sorted(avail, h, toilet), Min(CountOf(toilet), Len(avail)))

toilet_rest(avail, h, toilet) ==
    Drop(toilet_sorted(avail, h, toilet), Min(CountOf(toilet), Len(avail)))

\* group.rs:112-124
LToiletA ==
    /\ program = "legacy" /\ lpc = "toilet_a"
    /\ lassignments' =
          [lassignments EXCEPT !["Toilet A"] = toilet_people(available_a, lhistory, "Toilet A")]
    /\ available_a' = toilet_rest(available_a, lhistory, "Toilet A")
    /\ lpc' = "toilet_b"
    /\ UNCHANGED <<bvars, cvars, hvars, gvars, program, names_a, names_b, lhistory, available_b, remaining_people, ldi>>

\* group.rs:126-143: Toilet B, then the rest of both groups is combined
LToiletB ==
    /\ program = "legacy" /\ lpc = "toilet_b"
    /\ lassignments' =
          [lassignments EXCEPT !["Toilet B"] = toilet_people(available_b, lhistory, "Toilet B")]
    /\ available_b' = toilet_rest(available_b, lhistory, "Toilet B")
    /\ remaining_people' = available_a \o toilet_rest(available_b, lhistory, "Toilet B")
    /\ ldi' = 1
    /\ lpc' = "domains"
    /\ UNCHANGED <<bvars, cvars, hvars, gvars, program, names_a, names_b, lhistory, available_a>>

\* group.rs:152-156
domain_sorted(rem, h, domain) ==
    SortFalseFirst(rem, {p \in Range(rem) : was_previously_assigned(h, p, domain)})

\* a loop that stops one person early
domain_people_sparing(rem, h, domain) ==
    Take(domain_sorted(rem, h, domain), Min(CountOf(domain) - 1, Len(rem)))

\* group.rs:159-165: remove(0) up to count times, stopping when the pool is empty
domain_people(rem, h, domain) ==
    Take(domain_sorted(rem, h, domain), Min(CountOf(domain), Len(rem)))

\* a pool the assigned people are not removed from
domain_rest_keeping(rem, h, domain) == domain_sorted(rem, h, domain)

domain_rest(rem, h, domain) ==
    Drop(domain_sorted(rem, h, domain), Min(CountOf(domain), Len(rem)))

\* group.rs:146-168: one iteration of the loop over work_assignments
LDomain ==
    /\ program = "legacy" /\ lpc = "domains"
    /\ ldi <= Len(work_assignments)
    /\ LET domain == work_assignments[ldi].domain IN
          IF domain = "Toilet A" \/ domain = "Toilet B"
          THEN UNCHANGED <<lassignments, remaining_people>>
          ELSE /\ lassignments' =
                     [lassignments EXCEPT ![domain] = domain_people(remaining_people, lhistory, domain)]
               /\ remaining_people' = domain_rest(remaining_people, lhistory, domain)
    /\ ldi' = ldi + 1
    /\ lpc' = IF ldi = Len(work_assignments) THEN "balance" ELSE "domains"
    /\ UNCHANGED <<bvars, cvars, hvars, gvars, program, names_a, names_b, lhistory, available_a, available_b>>

\* group.rs:172-182: (domain, amount) lists, in the order of work_assignments
RECURSIVE shortage_list(_, _)
shortage_list(asg, i) ==
    IF i > Len(work_assignments) THEN <<>>
    ELSE LET w == work_assignments[i]
             current == Len(asg[w.domain])
         IN  (IF current < w.count
              THEN << [domain |-> w.domain, amount |-> w.count - current] >>
              ELSE <<>>) \o shortage_list(asg, i + 1)

\* an excess list that also offers the people of a domain that is exactly full
RECURSIVE excess_list_full(_, _)
excess_list_full(asg, i) ==
    IF i > Len(work_assignments) THEN <<>>
    ELSE LET w == work_assignments[i]
             current == Len(asg[w.domain])
         IN  (IF current >= w.count
              THEN << [domain |-> w.domain, amount |-> current - w.count + 1] >>
              ELSE <<>>) \o excess_list_full(asg, i + 1)

RECURSIVE excess_list(_, _)
excess_list(asg, i) ==
    IF i > Len(work_assignments) THEN <<>>
    ELSE LET w == work_assignments[i]
             current == Len(asg[w.domain])
         IN  (IF current > w.count
              THEN << [domain |-> w.domain, amount |-> current - w.count] >>
              ELSE <<>>) \o excess_list(asg, i + 1)

\* group.rs:187-212: for one shortage, walk the excess domains; neither amount is
\* updated after a move
RECURSIVE move_from_excess(_, _, _, _, _)
move_from_excess(asg, h, short, excesses, j) ==
    IF j > Len(excesses) THEN asg
    ELSE LET ex == excesses[j]
             to_move == Min(short.amount, ex.amount)
         IN  IF ex.amount = 0 \/ to_move = 0
             THEN move_from_excess(asg, h, short, excesses, j + 1)
             ELSE LET sorted == SortTrueFirst(asg[ex.domain],
                                    {p \in Range(asg[ex.domain]) :
                                        was_previously_assigned(h, p, short.domain)})
                      n == Min(to_move, Len(sorted))
                      moved == [asg EXCEPT ![ex.domain] = Drop(sorted, n),
                                           ![short.domain] = asg[short.domain] \o Take(sorted, n)]
                  IN  move_from_excess(moved, h, short, excesses, j + 1)

RECURSIVE balance_shortages(_, _, _, _, _)
balance_shortages(asg, h, shortages, excesses, i) ==
    IF i > Len(shortages) THEN asg
    ELSE balance_shortages(move_from_excess(asg, h, shortages[i], excesses, 1),
                           h, shortages, excesses, i + 1)

\* group.rs:170-214
redistribute(asg, h) ==
    LET shortages == shortage_list(asg, 1)
        excesses == excess_list(asg, 1)
    IN  IF excesses # <<>> /\ shortages # <<>>
        THEN balance_shortages(asg, h, shortages, excesses, 1)
        ELSE asg

\* group.rs:170-216: rebalance and return the map
LBalance ==
    /\ program = "legacy" /\ lpc = "balance"
    /\ lassignments' = redistribute(lassignments, lhistory)
    /\ lpc' = "done"
    /\ UNCHANGED <<bvars, cvars, hvars, gvars, program, names_a, names_b, lhistory, available_a, available_b,
                   remaining_people, ldi>>

LegacyNext == LShuffle \/ LToiletA \/ LToiletB \/ LDomain \/ LBalance


----------------------------------------------------------------------------
(* The legacy caller: src/src/assignment_engine.rs, src/src/main.rs *)

\* assignment_engine.rs:65, main.rs:90
MAX_ATTEMPTS == 500

\* history.rs:8
HISTORY_LENGTH == 2

\* the most calls of save_history, or of save_assignments, in one behaviour
MaxSaves == 3

\* the most create, update and delete calls beside one generate_assignments
MaxWrites == 2

\* the longest time since the last run, in half days
MaxSince == 3

\* what perform_distribution is called with and finds configured: force; whether
\* Discord is enabled and a webhook URL is set; the time since the newest
\* assigned_at in half days (None: no row); assignment_interval_days
Env(force, enabled, url, since, interval) ==
    [force |-> force, discord_enabled |-> enabled, discord_webhook_url |-> url,
     since |-> since, interval |-> interval]

CallerIdle ==
    /\ cpc = "idle" /\ cattempt = 0 /\ dcalls = 0
    /\ final_assignments = [some |-> FALSE]
    /\ save_arg = [some |-> FALSE]
    /\ cresult = [ok |-> FALSE, error |-> [kind |-> "none"]]
    /\ cenv = Env(FALSE, FALSE, [some |-> FALSE], [some |-> FALSE], 0)
    /\ ccalls = <<>>

\* assignment_engine.rs:11-15: perform_distribution is called.  A forced call
\* is made right after a run and on an empty table; an unforced one at any time.
InitCaller ==
    /\ program = "caller"
    /\ cpc = "start" /\ cattempt = 0 /\ dcalls = 0
    /\ final_assignments = [some |-> FALSE]
    /\ save_arg = [some |-> FALSE]
    /\ cresult = [ok |-> FALSE, error |-> [kind |-> "none"]]
    /\ ccalls = <<>>
    /\ \E force \in BOOLEAN,
          discord \in {<<FALSE, [some |-> FALSE]>>, <<TRUE, [some |-> FALSE]>>,
                       <<TRUE, [some |-> TRUE, v |-> "url"]>>} :
          \E since \in (IF force THEN {[some |-> FALSE], [some |-> TRUE, v |-> 0]}
                         ELSE {[some |-> FALSE]}
                              \cup {[some |-> TRUE, v |-> t] : t \in 0..MaxSince}),
             interval \in (IF force THEN {1} ELSE {1, 2}) :
             cenv = Env(force, discord[1], discord[2], since, interval)

\* db.rs:236-254: no row, or at least interval_days whole days since the newest
should_run(since, interval_days) ==
    IF ~since.some THEN TRUE ELSE (since.v \div 2) >= interval_days

\* a caller that asks the schedule whatever force says
CScheduleUnforced ==
    /\ program = "caller" /\ cpc = "schedule"
    /\ ccalls' = Append(ccalls, "should_run")
    /\ \E db_ok \in BOOLEAN :
          IF ~db_ok
          THEN /\ cresult' = [ok |-> FALSE, error |-> [kind |-> "schedule_check_failed"]]
               /\ cpc' = "done"
          ELSE IF should_run(cenv.since, cenv.interval)
          THEN /\ cresult' = cresult
               /\ cpc' = "fetch"
          ELSE /\ cresult' = [ok |-> TRUE, v |-> FALSE]
               /\ cpc' = "done"
    /\ UNCHANGED <<program, hvars, gvars, lvars, bvars, cattempt, dcalls, final_assignments, save_arg, cenv>>

\* assignment_engine.rs:19-32: the settings are fetched from the database
CSettings ==
    /\ program = "caller" /\ cpc = "start"
    /\ ccalls' = Append(ccalls, "fetch_db_settings")
    /\ \E db_ok \in BOOLEAN :
          IF db_ok
          THEN /\ cresult' = cresult
               /\ cpc' = "schedule"
          ELSE /\ cresult' = [ok |-> FALSE, error |-> [kind |-> "fetch_settings_failed"]]
               /\ cpc' = "done"
    /\ UNCHANGED <<program, hvars, gvars, lvars, bvars, cattempt, dcalls, final_assignments, save_arg, cenv>>

\* assignment_engine.rs:35-49: the schedule check, skipped when force is set
CSchedule ==
    /\ program = "caller" /\ cpc = "schedule"
    /\ IF cenv.force
       THEN /\ ccalls' = ccalls
            /\ cresult' = cresult
            /\ cpc' = "fetch"
       ELSE /\ ccalls' = Append(ccalls, "should_run")
            /\ \E db_ok \in BOOLEAN :
                  IF ~db_ok
                  THEN /\ cresult' = [ok |-> FALSE,
                                      error |-> [kind |-> "schedule_check_failed"]]
                       /\ cpc' = "done"
                  ELSE IF should_run(cenv.since, cenv.interval)
                  THEN /\ cresult' = cresult
                       /\ cpc' = "fetch"
                  ELSE /\ cresult' = [ok |-> TRUE, v |-> FALSE]
                       /\ cpc' = "done"
    /\ UNCHANGED <<program, hvars, gvars, lvars, bvars, cattempt, dcalls, final_assignments, save_arg, cenv>>

\* assignment_engine.rs:51-65: people and history are fetched, `?` returns the
\* error of either; then the loop starts
CFetch ==
    /\ program = "caller" /\ cpc = "fetch"
    /\ \E people_ok \in BOOLEAN, history_ok \in BOOLEAN :
          IF ~people_ok
          THEN /\ ccalls' = Append(ccalls, "fetch_people")
               /\ cresult' = [ok |-> FALSE, error |-> [kind |-> "fetch_people_failed"]]
               /\ cpc' = "done" /\ cattempt' = cattempt
          ELSE IF ~history_ok
          THEN /\ ccalls' = ccalls \o <<"fetch_people", "fetch_history">>
               /\ cresult' = [ok |-> FALSE, error |-> [kind |-> "fetch_history_failed"]]
               /\ cpc' = "done" /\ cattempt' = cattempt
          ELSE /\ ccalls' = ccalls \o <<"fetch_people", "fetch_history">>
               /\ cresult' = cresult
               /\ cpc' = "loop" /\ cattempt' = 1
    /\ UNCHANGED <<program, hvars, gvars, lvars, bvars, dcalls, final_assignments, save_arg, cenv>>

\* assignment_engine.rs:68-77: what the caller can see of one call of
\* distribute_work: Ok with the assignments of this attempt, or Err
distribute_work_result(k) ==
    { [ok |-> TRUE, new_assignments |-> [attempt |-> k]], [ok |-> FALSE] }

\* a loop body that keeps the assignments and goes on looping
CAttemptNoBreak ==
    /\ program = "caller" /\ cpc = "loop"
    /\ dcalls' = dcalls + 1
    /\ \E r \in distribute_work_result(cattempt) :
          /\ final_assignments' =
                IF r.ok THEN [some |-> TRUE, v |-> r.new_assignments] ELSE final_assignments
          /\ cattempt' = cattempt + 1
          /\ cpc' = IF cattempt = MAX_ATTEMPTS THEN "after" ELSE "loop"
    /\ UNCHANGED <<program, hvars, gvars, lvars, bvars, save_arg, cresult, cenv, ccalls>>

\* assignment_engine.rs:67-79 (main.rs:92-104): one iteration of the retry loop
CAttempt ==
    /\ program = "caller" /\ cpc = "loop"
    /\ dcalls' = dcalls + 1
    /\ \E r \in distribute_work_result(cattempt) :
          IF r.ok
          THEN /\ final_assignments' = [some |-> TRUE, v |-> r.new_assignments]
               /\ cattempt' = cattempt
               /\ cpc' = "after"
          ELSE /\ final_assignments' = final_assignments
               /\ cattempt' = cattempt + 1
               /\ cpc' = IF cattempt = MAX_ATTEMPTS THEN "after" ELSE "loop"
    /\ UNCHANGED <<program, hvars, gvars, lvars, bvars, save_arg, cresult, cenv, ccalls>>

\* a caller that notifies before it saves
CFinishNotifyFirst ==
    /\ program = "caller" /\ cpc = "after"
    /\ IF final_assignments.some
       THEN /\ save_arg' = final_assignments
            /\ \E saved \in BOOLEAN :
                  /\ cresult' = IF saved THEN [ok |-> TRUE, v |-> TRUE]
                                 ELSE [ok |-> FALSE, error |-> [kind |-> "save_failed"]]
                  /\ ccalls' = ccalls \o
                        (IF cenv.discord_enabled /\ cenv.discord_webhook_url.some
                         THEN <<"send_notification", "save_assignments">>
                         ELSE <<"save_assignments">>)
       ELSE /\ save_arg' = save_arg
            /\ ccalls' = ccalls
            /\ cresult' = [ok |-> FALSE,
                           error |-> [kind |-> "no_valid_assignment",
                                      attempts |-> MAX_ATTEMPTS]]
    /\ cpc' = "done"
    /\ UNCHANGED <<program, hvars, gvars, lvars, bvars, cattempt, dcalls, final_assignments, cenv>>

\* assignment_engine.rs:82-113 (main.rs:107-126): save what was found and, the
\* save done, notify when Discord is enabled and has a URL (a notification that
\* fails is logged, no more); or fail naming the number of attempts
CFinish ==
    /\ program = "caller" /\ cpc = "after"
    /\ IF final_assignments.some
       THEN /\ save_arg' = final_assignments
            /\ \E saved \in BOOLEAN :
                  /\ cresult' = IF saved THEN [ok |-> TRUE, v |-> TRUE]
                                 ELSE [ok |-> FALSE, error |-> [kind |-> "save_failed"]]
                  /\ ccalls' = ccalls \o
                        (IF saved /\ cenv.discord_enabled /\ cenv.discord_webhook_url.some
                         THEN <<"save_assignments", "send_notification">>
                         ELSE <<"save_assignments">>)
       ELSE /\ save_arg' = save_arg
            /\ ccalls' = ccalls
            /\ cresult' = [ok |-> FALSE,
                           error |-> [kind |-> "no_valid_assignment",
                                      attempts |-> MAX_ATTEMPTS]]
    /\ cpc' = "done"
    /\ UNCHANGED <<program, hvars, gvars, lvars, bvars, cattempt, dcalls, final_assignments, cenv>>

CallerNext == CSettings \/ CSchedule \/ CFetch \/ CAttempt \/ CFinish

----------------------------------------------------------------------------
(* Backend data: src/backend/src/models/generic.rs *)

\* Option<T>: an attribute or parameter that is not in the map is None
None == [some |-> FALSE]
Some(x) == [some |-> TRUE, v |-> x]

\* a rational number num/den with den > 0, standing for an f64
Frac(n, d) == [num |-> n, den |-> d]

FracLt(x, y) == x.num * y.den < y.num * x.den
FracLe(x, y) == x.num * y.den <= y.num * x.den
FracAdd(x, y) == Frac(x.num * y.den + y.num * x.den, x.den * y.den)
FracMul(x, y) == Frac(x.num * y.num, x.den * y.den)

\* Option<serde_json::Value>, as far as the parameters are read: a parameter that
\* is an unsigned integer, a negative integer, another number, or a string
JU64(n) == Some([t |-> "u64", n |-> n])
JI64(n) == Some([t |-> "i64", n |-> n])
JF64(n, d) == Some([t |-> "f64", v |-> Frac(n, d)])
JStr == Some([t |-> "str"])

\* Value::as_f64: every number converts, nothing else does
as_f64(v) ==
    IF ~v.some THEN None
    ELSE IF v.v.t = "u64" \/ v.v.t = "i64" THEN Some(Frac(v.v.n, 1))
    ELSE IF v.v.t = "f64" THEN Some(v.v.v)
    ELSE None

\* Value::as_u64: only an unsigned integer converts
as_u64(v) ==
    IF ~v.some THEN None
    ELSE IF v.v.t = "u64" THEN Some(v.v.n)
    ELSE None

\* the name a target with a name attribute carries
TName(j) == <<"T", j>>

\* a participant entity: id and the attributes the core reads
Participant(i, sk, av) == [id |-> i, skills |-> sk, availability |-> av]

\* a target entity: id and the attributes the core reads
Target(j, nm, rc, rs) == [id |-> j, name |-> nm, required_count |-> rc, required_skills |-> rs]

\* models::Assignment (metadata left out: nothing reads it)
Assignment(p, t, c) == [participant_id |-> p, target_id |-> t, confidence |-> c]

\* how many entries of an assignment list go to target id t
AssignedTo(asg, t) == Cardinality({i \in 1..Len(asg) : asg[i].target_id = t})

\* Result<Vec<Assignment>>
Ok(asg) == [ok |-> TRUE, assignments |-> asg]
Err(e) == [ok |-> FALSE, error |-> e]
NoResult == [ok |-> FALSE, error |-> [kind |-> "none"]]

\* slice::sort_by with a descending comparison; the sort is stable, so elements
\* that compare equal keep their order.  GT: the pairs <<i, j>> of positions
\* such that s[i] sorts strictly before s[j].
SortDescBy(s, GT) ==
    LET n == Len(s)
        pos(i) == Cardinality({j \in 1..n : <<j, i>> \in GT})
                  + Cardinality({j \in 1..(i - 1) : <<i, j>> \notin GT /\ <<j, i>> \notin GT})
                  + 1
    IN  [k \in 1..n |-> s[CHOOSE i \in 1..n : pos(i) = k]]

----------------------------------------------------------------------------
(* BalancedRotationStrategy: engines/assignment/balanced_rotation.rs *)

\* balanced_rotation.rs:29-35
get_rotation_weight(cfg) ==
    IF as_f64(cfg.rotation_weight).some THEN as_f64(cfg.rotation_weight).v ELSE Frac(7, 10)

\* balanced_rotation.rs:37-43
get_balance_weight(cfg) ==
    IF as_f64(cfg.balance_weight).some THEN as_f64(cfg.balance_weight).v ELSE Frac(3, 10)

\* balanced_rotation.rs:45-51
get_max_attempts(cfg) ==
    IF as_u64(cfg.max_attempts).some THEN as_u64(cfg.max_attempts).v ELSE 50

\* balanced_rotation.rs:61-72
rotation_score(hist, pid, target_name) ==
    IF pid \in DOMAIN hist
    THEN LET h == hist[pid]
             recent_assignments == Min(Len(h), 10)
             target_count == Cardinality({i \in 1..Len(h) : h[i] = target_name})
         IN  IF recent_assignments = 0 THEN Frac(1, 1)
             ELSE Frac(recent_assignments - target_count, recent_assignments)
    ELSE Frac(1, 1)

\* balanced_rotation.rs:53-78
calculate_assignment_score(hist, pid, target_name, rotation_weight, balance_weight) ==
    LET balance_score == Frac(1, 2)
    IN  FracAdd(FracMul(rotation_weight, rotation_score(hist, pid, target_name)),
                FracMul(balance_weight, balance_score))

\* balanced_rotation.rs:106-120: (participant, score) pairs, highest score first
participant_scores(avail, hist, target_name, rw, bw) ==
    LET scored == [i \in 1..Len(avail) |->
                      [p |-> avail[i],
                       score |-> calculate_assignment_score(hist, avail[i].id, target_name,
                                                            rw, bw)]]
    IN  SortDescBy(scored,
                   {ij \in (1..Len(avail)) \X (1..Len(avail)) :
                       FracLt(scored[ij[2]].score, scored[ij[1]].score)})

\* a body that leaves the chosen participants in the pool
balanced_target_keeping(avail, asg, target, hist, cfg) ==
    IF ~target.name.some THEN [ok |-> FALSE, error |-> [kind |-> "missing_name"]]
    ELSE IF ~target.required_count.some
    THEN [ok |-> FALSE, error |-> [kind |-> "missing_required_count"]]
    ELSE LET scores == participant_scores(avail, hist, target.name.v,
                                          get_rotation_weight(cfg), get_balance_weight(cfg))
             chosen == Take(scores, Min(target.required_count.v, Len(scores)))
         IN  IF Len(chosen) < target.required_count.v
             THEN [ok |-> FALSE,
                   error |-> [kind |-> "not_enough", target |-> target.name.v,
                              required |-> target.required_count.v,
                              available |-> Len(chosen)]]
             ELSE [ok |-> TRUE,
                   assignments |-> asg \o [i \in 1..Len(chosen) |->
                                      Assignment(chosen[i].p.id, target.id, chosen[i].score)],
                   available |-> avail]

\* balanced_rotation.rs:96-153: the body of `for target in targets` for one target.
\* Gives the grown assignment list and the shrunk pool, or the error returned.
balanced_target(avail, asg, target, hist, cfg) ==
    IF ~target.name.some THEN [ok |-> FALSE, error |-> [kind |-> "missing_name"]]
    ELSE IF ~target.required_count.some
    THEN [ok |-> FALSE, error |-> [kind |-> "missing_required_count"]]
    ELSE LET target_name == target.name.v
             required_count == target.required_count.v
             scores == participant_scores(avail, hist, target_name,
                                          get_rotation_weight(cfg), get_balance_weight(cfg))
             assignments_needed == Min(required_count, Len(scores))
             chosen == Take(scores, assignments_needed)
             taken == {chosen[i].p.id : i \in 1..Len(chosen)}
         IN  IF assignments_needed < required_count
             THEN [ok |-> FALSE,
                   error |-> [kind |-> "not_enough", target |-> target_name,
                              required |-> required_count,
                              available |-> assignments_needed]]
             ELSE [ok |-> TRUE,
                   assignments |-> asg \o [i \in 1..Len(chosen) |->
                                      Assignment(chosen[i].p.id, target.id, chosen[i].score)],
                   available |-> SelectSeq(avail, LAMBDA p : p.id \notin taken)]

----------------------------------------------------------------------------
(* RandomAssignmentStrategy: engines/assignment/random_assignment.rs *)

\* target.get_attribute("required_count").unwrap_or(1)
required_or_default(target) ==
    IF target.required_count.some THEN target.required_count.v ELSE 1

\* random_assignment.rs:33-51: the body of `for target in targets`; the first
\* shuffled participant is read required_count times and never removed
random_target(shuffled, asg, target) ==
    IF Len(shuffled) = 0 THEN asg
    ELSE asg \o [i \in 1..required_or_default(target) |->
                    Assignment(shuffled[1].id, target.id, Frac(1, 2))]

----------------------------------------------------------------------------
(* SkillBasedStrategy: engines/assignment/skill_based.rs *)

\* required_skills.iter().filter(|skill| skills.contains(skill)).count()
skill_match_count(p, target) == Cardinality(target.required_skills \cap p.skills)

\* skill_based.rs:37-43: the participants holding at least one required skill
suitable_participants(ps, target) ==
    SelectSeq(ps, LAMBDA p : \E skill \in target.required_skills : skill \in p.skills)

\* a selection without the take(required_count) limit
skill_target_all(ps, asg, target) ==
    LET sorted == suitable_participants(ps, target)
    IN  asg \o [i \in 1..Len(sorted) |-> Assignment(sorted[i].id, target.id, Frac(1, 2))]

\* skill_based.rs:32-81: the body of `for target in targets`
skill_target(ps, asg, target) ==
    LET suitable == suitable_participants(ps, target)
        sorted == SortDescBy(suitable,
                             {ij \in (1..Len(suitable)) \X (1..Len(suitable)) :
                                 skill_match_count(suitable[ij[1]], target)
                                     > skill_match_count(suitable[ij[2]], target)})
        top == Take(sorted, Min(required_or_default(target), Len(sorted)))
        confidence(p) == IF target.required_skills = {} THEN Frac(1, 2)
                         ELSE Frac(skill_match_count(p, target), Cardinality(target.required_skills))
    IN  asg \o [i \in 1..Len(top) |-> Assignment(top[i].id, target.id, confidence(top[i]))]


----------------------------------------------------------------------------
(* The arguments of a backend call *)

StrategyNames == {"balanced_rotation", "random_assignment", "skill_based"}

RuleNames == {"capacity_check", "availability_check", "skill_matching", "custom_rule"}

\* StrategyConfig: the parameters the core reads, and validation_rules.
\* strict[r] is the `strict` flag inside parameters["validation_<r>"], None when
\* that parameter, or the flag in it, is missing or no bool.
Config(rw, bw, ma, rules, strict) ==
    [rotation_weight |-> rw, balance_weight |-> bw, max_attempts |-> ma,
     validation_rules |-> rules, strict |-> strict]

NoStrict == [r \in RuleNames |-> None]

\* up to maxn participants with ids 1..n; skills from SK, availability from AV
ParticipantLists(maxn, SK, AV) ==
    UNION { { [i \in 1..n |-> Participant(i, sk[i], av[i])] :
                sk \in [1..n -> SK], av \in [1..n -> AV] } : n \in 0..maxn }

\* which attribute of which of m targets is missing, if any: nothing ("none"),
\* the required_count of the first target ("count"), or ("either") the name of
\* the first target or the required_count of the last
Missing(kind, m) ==
    {<<0, "none">>}
    \cup (IF kind = "count" THEN ((1..m) \cap {1}) \X {"required_count"} ELSE {})
    \cup (IF kind = "either"
          THEN (((1..m) \cap {1}) \X {"name"}) \cup (((1..m) \cap {m}) \X {"required_count"})
          ELSE {})

\* up to maxm targets with ids 1..m, required_count from RC, required skills
\* from RS; kind says which one may lack its name or its required_count
TargetLists(maxm, RC, RS, kind) ==
    UNION { { [j \in 1..m |->
                 Target(j,
                        IF miss = <<j, "name">> THEN None ELSE Some(TName(j)),
                        IF miss = <<j, "required_count">> THEN None ELSE Some(rc[j]),
                        rs[j])] :
                rc \in [1..m -> RC], rs \in [1..m -> RS], miss \in Missing(kind, m) } :
            m \in 0..maxm }

PSkillSets == {{}, {"s1"}, {"s1", "s2"}}
TSkillSets == {{}, {"s1", "s2"}}

\* the histories BalancedRotationStrategy::with_history is given for participant 1
BHistories ==
    {<<>>, <<TName(1)>>, <<TName(1), TName(2)>>, [i \in 1..11 |-> TName(1)]}

ids(ps) == {ps[i].id : i \in 1..Len(ps)}

Modes == {"Strict", "Permissive", "BestEffort"}

EngineIdle ==
    /\ epc = "idle" /\ calls = <<>> /\ estrategy = None
    /\ eassignments = None /\ eattempts = 0
    /\ validation_results = [m \in Modes |-> <<>>]
    /\ eresult = [m \in Modes |-> NoResult]

StrategyIdle ==
    /\ available = <<>> /\ assignments = <<>>
    /\ ti = 0 /\ attempt = 0
    /\ spc = "idle" /\ sresult = NoResult

CallIdle ==
    /\ rule_outcome = None
    /\ strategy_name = "" /\ participants = <<>> /\ targets = <<>>
    /\ config = Config(None, None, None, <<>>, NoStrict)
    /\ bhistory = <<>>

\* a direct call of AssignmentStrategy::execute
InitStrategy ==
    /\ rule_outcome = None
    /\ program = "strategy"
    /\ LegacyIdle /\ EngineIdle
    /\ strategy_name \in StrategyNames
    /\ participants \in (IF strategy_name = "skill_based"
                         THEN ParticipantLists(MaxP, PSkillSets, {None})
                         ELSE ParticipantLists(MaxP, {{}}, {None}))
    /\ targets \in (IF strategy_name = "skill_based"
                    THEN TargetLists(MaxT, 1..MaxReq, TSkillSets, "count")
                    ELSE TargetLists(MaxT, 1..MaxReq, {{}}, "either"))
    /\ IF strategy_name = "balanced_rotation"
       THEN /\ \E rw \in {None, JU64(1)}, k \in {1, MaxAttemptsParam} :
                  config = Config(rw, None, JU64(k), <<>>, NoStrict)
            /\ \E who \in SUBSET ({1} \cap ids(participants)) :
                  bhistory \in [who -> BHistories]
       ELSE /\ config = Config(None, None, None, <<>>, NoStrict)
            /\ bhistory = <<>>
    /\ available = <<>> /\ assignments = <<>>
    /\ ti = 0 /\ attempt = 0
    /\ spc = "start" /\ sresult = NoResult

----------------------------------------------------------------------------
(* AssignmentStrategy::execute, step by step *)

\* balanced_rotation.rs:168-170 and 192: read max_attempts; with none allowed the
\* loop body never runs
BalBegin ==
    /\ program = "strategy" /\ strategy_name = "balanced_rotation" /\ spc = "start"
    /\ IF get_max_attempts(config) = 0
       THEN /\ sresult' = Err([kind |-> "generation_failed"])
            /\ spc' = "done"
            /\ attempt' = attempt
       ELSE /\ attempt' = 1
            /\ spc' = "attempt"
            /\ sresult' = sresult
    /\ UNCHANGED <<program, cvars, hvars, gvars, lvars, callvars, evars, available, assignments, ti>>

\* balanced_rotation.rs:86-94: a fresh attempt: empty list, shuffled pool
BalShuffle ==
    /\ program = "strategy" /\ strategy_name = "balanced_rotation" /\ spc = "attempt"
    /\ available' \in Shuffles(participants)
    /\ assignments' = <<>>
    /\ ti' = 1
    /\ spc' = "targets"
    /\ UNCHANGED <<program, cvars, hvars, gvars, lvars, callvars, evars, attempt, sresult>>

\* balanced_rotation.rs:96-143: one target served in full
BalTarget ==
    /\ program = "strategy" /\ strategy_name = "balanced_rotation" /\ spc = "targets"
    /\ ti <= Len(targets)
    /\ LET r == balanced_target(available, assignments, targets[ti], bhistory, config) IN
          /\ r.ok
          /\ assignments' = r.assignments
          /\ available' = r.available
    /\ ti' = ti + 1
    /\ UNCHANGED <<program, cvars, hvars, gvars, lvars, callvars, evars, attempt, spc, sresult>>

\* a retry loop that gives up one attempt late
BalAttemptFailsLate ==
    /\ program = "strategy" /\ strategy_name = "balanced_rotation" /\ spc = "targets"
    /\ ti <= Len(targets)
    /\ LET r == balanced_target(available, assignments, targets[ti], bhistory, config) IN
          /\ ~r.ok
          /\ IF attempt = get_max_attempts(config) + 1
             THEN /\ sresult' = Err([kind |-> "attempts_exhausted",
                                     attempts |-> get_max_attempts(config),
                                     last |-> r.error])
                  /\ spc' = "done"
                  /\ attempt' = attempt
             ELSE /\ attempt' = attempt + 1
                  /\ spc' = "attempt"
                  /\ sresult' = sresult
    /\ assignments' = <<>>
    /\ UNCHANGED <<program, cvars, hvars, gvars, lvars, callvars, evars, available, ti>>

\* balanced_rotation.rs:97-103, 146-153 and 179-188: the attempt fails at this
\* target; execute retries, or gives up after the last attempt
BalAttemptFails ==
    /\ program = "strategy" /\ strategy_name = "balanced_rotation" /\ spc = "targets"
    /\ ti <= Len(targets)
    /\ LET r == balanced_target(available, assignments, targets[ti], bhistory, config) IN
          /\ ~r.ok
          /\ IF attempt = get_max_attempts(config)
             THEN /\ sresult' = Err([kind |-> "attempts_exhausted",
                                     attempts |-> get_max_attempts(config),
                                     last |-> r.error])
                  /\ spc' = "done"
                  /\ attempt' = attempt
             ELSE /\ attempt' = attempt + 1
                  /\ spc' = "attempt"
                  /\ sresult' = sresult
    /\ assignments' = <<>>
    /\ UNCHANGED <<program, cvars, hvars, gvars, lvars, callvars, evars, available, ti>>

\* balanced_rotation.rs:156 and 172-178: every target served, the attempt's list
\* is what execute returns
BalReturn ==
    /\ program = "strategy" /\ strategy_name = "balanced_rotation" /\ spc = "targets"
    /\ ti > Len(targets)
    /\ sresult' = Ok(assignments)
    /\ spc' = "done"
    /\ UNCHANGED <<program, cvars, hvars, gvars, lvars, callvars, evars, available, assignments, ti, attempt>>

\* random_assignment.rs:25-30
RandShuffle ==
    /\ program = "strategy" /\ strategy_name = "random_assignment" /\ spc = "start"
    /\ available' \in Shuffles(participants)
    /\ assignments' = <<>>
    /\ ti' = 1
    /\ spc' = "targets"
    /\ UNCHANGED <<program, cvars, hvars, gvars, lvars, callvars, evars, attempt, sresult>>

\* random_assignment.rs:33-51
RandTarget ==
    /\ program = "strategy" /\ strategy_name = "random_assignment" /\ spc = "targets"
    /\ ti <= Len(targets)
    /\ assignments' = random_target(available, assignments, targets[ti])
    /\ ti' = ti + 1
    /\ UNCHANGED <<program, cvars, hvars, gvars, lvars, callvars, evars, available, attempt, spc, sresult>>

\* skill_based.rs:27-29
SkillBegin ==
    /\ program = "strategy" /\ strategy_name = "skill_based" /\ spc = "start"
    /\ assignments' = <<>>
    /\ ti' = 1
    /\ spc' = "targets"
    /\ UNCHANGED <<program, cvars, hvars, gvars, lvars, callvars, evars, available, attempt, sresult>>

\* skill_based.rs:32-81
SkillTarget ==
    /\ program = "strategy" /\ strategy_name = "skill_based" /\ spc = "targets"
    /\ ti <= Len(targets)
    /\ assignments' = skill_target(participants, assignments, targets[ti])
    /\ ti' = ti + 1
    /\ UNCHANGED <<program, cvars, hvars, gvars, lvars, callvars, evars, available, attempt, spc, sresult>>

\* random_assignment.rs:54 and skill_based.rs:84: Ok(assignments)
PlainReturn ==
    /\ program = "strategy" /\ strategy_name \in {"random_assignment", "skill_based"}
    /\ spc = "targets"
    /\ ti > Len(targets)
    /\ sresult' = Ok(assignments)
    /\ spc' = "done"
    /\ UNCHANGED <<program, cvars, hvars, gvars, lvars, callvars, evars, available, assignments, ti, attempt>>

StrategyNext ==
    \/ BalBegin \/ BalShuffle \/ BalTarget \/ BalAttemptFails \/ BalReturn
    \/ RandShuffle \/ RandTarget
    \/ SkillBegin \/ SkillTarget
    \/ PlainReturn


----------------------------------------------------------------------------


----------------------------------------------------------------------------
(* AssignmentStrategy::execute as one computation: the target steps folded *)

\* balanced_rotation.rs:80-157: attempt_assignment with the pool shuffled as sh
RECURSIVE balanced_attempt(_, _, _, _, _, _)
balanced_attempt(avail, asg, ts, j, hist, cfg) ==
    IF j > Len(ts) THEN Ok(asg)
    ELSE LET r == balanced_target(avail, asg, ts[j], hist, cfg)
         IN  IF r.ok THEN balanced_attempt(r.available, r.assignments, ts, j + 1, hist, cfg)
             ELSE Err(r.error)

\* balanced_rotation.rs:162-193: the outcomes of execute, each with the number of
\* attempts made, from attempt k on
RECURSIVE balanced_execute_from(_, _, _, _, _)
balanced_execute_from(k, ps, ts, hist, cfg) ==
    LET max_attempts == get_max_attempts(cfg)
        tries == {balanced_attempt(sh, <<>>, ts, 1, hist, cfg) : sh \in Shuffles(ps)}
        good == {r \in tries : r.ok}
        bad == {r \in tries : ~r.ok}
    IN  IF k > max_attempts
        THEN {[ok |-> FALSE, error |-> [kind |-> "generation_failed"], attempts |-> k - 1]}
        ELSE {[ok |-> TRUE, assignments |-> r.assignments, attempts |-> k] : r \in good}
             \cup (IF bad = {} THEN {}
                   ELSE IF k = max_attempts
                   THEN {[ok |-> FALSE,
                          error |-> [kind |-> "attempts_exhausted",
                                     attempts |-> max_attempts, last |-> r.error],
                          attempts |-> k] : r \in bad}
                   ELSE balanced_execute_from(k + 1, ps, ts, hist, cfg))

RECURSIVE random_run(_, _, _, _)
random_run(shuffled, asg, ts, j) ==
    IF j > Len(ts) THEN asg
    ELSE random_run(shuffled, random_target(shuffled, asg, ts[j]), ts, j + 1)

RECURSIVE skill_run(_, _, _, _)
skill_run(ps, asg, ts, j) ==
    IF j > Len(ts) THEN asg
    ELSE skill_run(ps, skill_target(ps, asg, ts[j]), ts, j + 1)

\* strategy.execute(&participants, &targets, &config), by registered name
strategy_execute(name, ps, ts, cfg, hist) ==
    IF name = "balanced_rotation" THEN balanced_execute_from(1, ps, ts, hist, cfg)
    ELSE IF name = "random_assignment"
    THEN {[ok |-> TRUE, assignments |-> random_run(sh, <<>>, ts, 1), attempts |-> 1] :
             sh \in Shuffles(ps)}
    ELSE {[ok |-> TRUE, assignments |-> skill_run(ps, <<>>, ts, 1), attempts |-> 1]}

----------------------------------------------------------------------------
(* validate_config *)

InvalidConfig(param, why) == Err([kind |-> "invalid_config", param |-> param, why |-> why])

ConfigOk == [ok |-> TRUE]

\* balanced_rotation.rs:205-213 and 216-224: a weight that is present must be a
\* number within 0.0..=1.0
check_weight(v, param) ==
    IF ~v.some THEN ConfigOk
    ELSE IF ~as_f64(v).some THEN InvalidConfig(param, "must be a number")
    ELSE IF FracLe(Frac(0, 1), as_f64(v).v) /\ FracLe(as_f64(v).v, Frac(1, 1)) THEN ConfigOk
    ELSE InvalidConfig(param, "must be between 0.0 and 1.0")

\* the most attempts validate_config accepts
MaxAttemptsLimit == 1000

\* a check of max_attempts that lets zero through
check_max_attempts_from_zero(v) ==
    IF ~v.some THEN ConfigOk
    ELSE IF ~as_u64(v).some THEN InvalidConfig("max_attempts", "must be a positive integer")
    ELSE IF as_u64(v).v > MaxAttemptsLimit
    THEN InvalidConfig("max_attempts", "must be between 1 and 1000")
    ELSE ConfigOk

\* balanced_rotation.rs:227-235
check_max_attempts(v) ==
    IF ~v.some THEN ConfigOk
    ELSE IF ~as_u64(v).some THEN InvalidConfig("max_attempts", "must be a positive integer")
    ELSE IF as_u64(v).v = 0 \/ as_u64(v).v > MaxAttemptsLimit
    THEN InvalidConfig("max_attempts", "must be between 1 and 1000")
    ELSE ConfigOk

\* balanced_rotation.rs:203-238
balanced_validate_config(cfg) ==
    IF ~check_weight(cfg.rotation_weight, "rotation_weight").ok
    THEN check_weight(cfg.rotation_weight, "rotation_weight")
    ELSE IF ~check_weight(cfg.balance_weight, "balance_weight").ok
    THEN check_weight(cfg.balance_weight, "balance_weight")
    ELSE check_max_attempts(cfg.max_attempts)

\* strategy.validate_config(&config), by registered name; random_assignment.rs:65-68
\* and skill_based.rs:95-98 accept everything
strategy_validate_config(name, cfg) ==
    IF name = "balanced_rotation" THEN balanced_validate_config(cfg) ELSE ConfigOk

\* the values a weight parameter is given: absent, a string, numbers below,
\* inside, on the ends of and above 0.0..=1.0
WeightValues ==
    {None, JStr, JI64(-1), JU64(0), JF64(1, 2), JU64(1), JF64(3, 2), JU64(2)}

\* the values max_attempts is given: absent, a string, a negative integer, a
\* float, and integers below, on the ends of and above 1..=1000
AttemptValues ==
    {None, JStr, JI64(-1), JF64(25, 1), JU64(0), JU64(1), JU64(MaxAttemptsLimit),
     JU64(MaxAttemptsLimit + 1)}

\* a direct call of BalancedRotationStrategy::validate_config
InitValidateConfig ==
    /\ program = "validate_config"
    /\ LegacyIdle /\ EngineIdle
    /\ rule_outcome = None
    /\ strategy_name = "balanced_rotation"
    /\ participants = <<>> /\ targets = <<>> /\ bhistory = <<>>
    /\ \E rw \in WeightValues, bw \in WeightValues, ma \in AttemptValues :
          config = Config(rw, bw, ma, <<>>, NoStrict)
    /\ available = <<>> /\ assignments = <<>>
    /\ ti = 0 /\ attempt = 0
    /\ spc = "start" /\ sresult = NoResult

\* balanced_rotation.rs:203-238: validate_config runs and returns
BalValidateConfig ==
    /\ program = "validate_config" /\ spc = "start"
    /\ sresult' = balanced_validate_config(config)
    /\ spc' = "done"
    /\ UNCHANGED <<program, cvars, hvars, gvars, lvars, callvars, evars, available, assignments, ti, attempt>>

----------------------------------------------------------------------------
(* Validators: engines/validation *)

ValidationResult(rule, passed, message, severity) ==
    [rule_name |-> rule, passed |-> passed, message |-> message, severity |-> severity]

Message(text, items) == [text |-> text, items |-> items]

\* config.get("strict").and_then(|v| v.as_bool()).unwrap_or(default)
strict_or(flag, default) == IF flag.some THEN flag.v ELSE default

\* target.get_attribute("name").unwrap_or_else(|| format!("Target-{}", target.id))
target_label(t) == IF t.name.some THEN t.name.v ELSE <<"Target-", t.id>>

\* violations that strict mode alone raises, over-assignment included
RECURSIVE capacity_violations_lenient(_, _, _, _)
capacity_violations_lenient(asg, ts, strict_mode, j) ==
    IF j > Len(ts) THEN <<>>
    ELSE LET required_count == required_or_default(ts[j])
             assigned_count == AssignedTo(asg, ts[j].id)
             v(kind) == << [kind |-> kind, target |-> target_label(ts[j]),
                            assigned |-> assigned_count, required |-> required_count] >>
         IN  (IF assigned_count > required_count /\ strict_mode THEN v("over")
              ELSE IF assigned_count < required_count /\ strict_mode THEN v("under")
              ELSE <<>>) \o capacity_violations_lenient(asg, ts, strict_mode, j + 1)

\* capacity_check.rs:35-62: the violations, target after target
RECURSIVE capacity_violations(_, _, _, _)
capacity_violations(asg, ts, strict_mode, j) ==
    IF j > Len(ts) THEN <<>>
    ELSE LET required_count == required_or_default(ts[j])
             assigned_count == AssignedTo(asg, ts[j].id)
             v(kind) == << [kind |-> kind, target |-> target_label(ts[j]),
                            assigned |-> assigned_count, required |-> required_count] >>
         IN  (IF assigned_count > required_count THEN v("over")
              ELSE IF assigned_count < required_count /\ strict_mode THEN v("under")
              ELSE <<>>) \o capacity_violations(asg, ts, strict_mode, j + 1)

\* capacity_check.rs:13-81
capacity_check(asg, ps, ts, strict) ==
    LET strict_mode == strict_or(strict, TRUE)
        violations == capacity_violations(asg, ts, strict_mode, 1)
    IN  ValidationResult("capacity_check",
                         violations = <<>>,
                         IF violations = <<>> THEN Message("all_targets_ok", <<>>)
                         ELSE Message("violations", violations),
                         IF strict_mode THEN "Error" ELSE "Warning")

\* a map in which a participant without the attribute counts as unavailable
participant_availability_strictly(ps, pid) ==
    LET last == CHOOSE i \in 1..Len(ps) :
                    ps[i].id = pid /\ \A k \in (i + 1)..Len(ps) : ps[k].id # pid
    IN  strict_or(ps[last].availability, FALSE)

\* availability_check.rs:25-32: the map built from the participants; a later
\* entry with the same id replaces an earlier one
participant_availability(ps, pid) ==
    LET last == CHOOSE i \in 1..Len(ps) :
                    ps[i].id = pid /\ \A k \in (i + 1)..Len(ps) : ps[k].id # pid
    IN  strict_or(ps[last].availability, TRUE)

\* availability_check.rs:34-50
unavailable_assignments(asg, ps) ==
    LET hit == SelectSeq(asg, LAMBDA a : /\ a.participant_id \in {ps[i].id : i \in 1..Len(ps)}
                                        /\ ~participant_availability(ps, a.participant_id))
    IN  [i \in 1..Len(hit) |-> [participant |-> hit[i].participant_id]]

\* a validator that is strict unless told otherwise
availability_check_strict_by_default(asg, ps, ts, strict) ==
    LET unavailable == unavailable_assignments(asg, ps)
    IN  ValidationResult("availability_check",
                         unavailable = <<>>,
                         IF unavailable = <<>> THEN Message("all_available", <<>>)
                         ELSE Message("unavailable_assigned", unavailable),
                         IF strict_or(strict, TRUE) THEN "Error" ELSE "Warning")

\* availability_check.rs:13-71
availability_check(asg, ps, ts, strict) ==
    LET strict_mode == strict_or(strict, FALSE)
        unavailable == unavailable_assignments(asg, ps)
    IN  ValidationResult("availability_check",
                         unavailable = <<>>,
                         IF unavailable = <<>> THEN Message("all_available", <<>>)
                         ELSE Message("unavailable_assigned", unavailable),
                         IF strict_mode THEN "Error" ELSE "Warning")

\* iter().find(|e| e.id == id): the first entity with the id
find_entity(es, id) ==
    IF \E i \in 1..Len(es) : es[i].id = id
    THEN Some(es[CHOOSE i \in 1..Len(es) : es[i].id = id /\ \A k \in 1..(i - 1) : es[k].id # id])
    ELSE None

\* a test that takes a match of exactly half for a low one
low_skill_match_at_half(a, ps, ts) ==
    LET participant == find_entity(ps, a.participant_id)
        target == find_entity(ts, a.target_id)
    IN  /\ participant.some /\ target.some
        /\ target.v.required_skills # {}
        /\ 2 * skill_match_count(participant.v, target.v)
               <= Cardinality(target.v.required_skills)

\* skill_matching.rs:23-59: an assignment whose participant matches fewer than
\* half of the skills its target requires
low_skill_match(a, ps, ts) ==
    LET participant == find_entity(ps, a.participant_id)
        target == find_entity(ts, a.target_id)
    IN  /\ participant.some /\ target.some
        /\ target.v.required_skills # {}
        /\ 2 * skill_match_count(participant.v, target.v)
               < Cardinality(target.v.required_skills)

\* skill_matching.rs:11-79
skill_matching(asg, ps, ts, strict) ==
    LET strict_mode == strict_or(strict, FALSE)
        hit == SelectSeq(asg, LAMBDA a : low_skill_match(a, ps, ts))
        issues == [i \in 1..Len(hit) |->
                      [participant |-> hit[i].participant_id, target |-> hit[i].target_id]]
    IN  ValidationResult("skill_matching",
                         issues = <<>> \/ ~strict_mode,
                         IF issues = <<>> THEN Message("all_adequate", <<>>)
                         ELSE Message("skill_issues", issues),
                         IF strict_mode /\ issues # <<>> THEN "Error"
                         ELSE IF issues # <<>> THEN "Warning"
                         ELSE "Info")

Severities == {"Info", "Warning", "Error", "Critical"}

\* rule_engine.rs:62-73: the trait leaves it to the implementation what validate
\* returns: a ValidationResult of either verdict and any severity, or an error
RuleOutcomes ==
    {Some(Ok(ValidationResult("custom_rule", FALSE, Message("custom", <<>>), sv))) :
         sv \in Severities}
    \cup {Some(Ok(ValidationResult("custom_rule", TRUE, Message("custom", <<>>), sv))) :
         sv \in {"Info", "Error"}}
    \cup {Some(Err([kind |-> "validator_error"]))}

\* validator.validate(assignments, participants, targets, &rule_config), by name
validate(rule, asg, ps, ts, strict, outcome) ==
    IF rule = "capacity_check" THEN Ok(capacity_check(asg, ps, ts, strict))
    ELSE IF rule = "availability_check" THEN Ok(availability_check(asg, ps, ts, strict))
    ELSE IF rule = "skill_matching" THEN Ok(skill_matching(asg, ps, ts, strict))
    ELSE outcome.v

----------------------------------------------------------------------------
(* A direct call of CapacityCheckValidator::validate *)

VMaxT == 2
VMaxAsg == 3

\* up to VMaxT targets with ids 1..n, required_count absent, 1 or 2, the name of
\* the first present or absent
CapacityTargets ==
    UNION { { [i \in 1..n |-> Target(i, IF i = 1 THEN nm ELSE Some(TName(i)), rc[i], {})] :
                rc \in [1..n -> {None, Some(1), Some(2)}],
                nm \in {None, Some(TName(1))} } : n \in 1..VMaxT }

\* up to VMaxAsg assignments, each to one of the target ids 1..VMaxT
CapacityAssignments ==
    UNION { { [i \in 1..n |-> Assignment(i, t[i], Frac(1, 2))] :
                t \in [1..n -> 1..VMaxT] } : n \in 0..VMaxAsg }

InitCapacityCheck ==
    /\ program = "capacity_check"
    /\ LegacyIdle /\ EngineIdle
    /\ rule_outcome = None
    /\ strategy_name = "" /\ participants = <<>> /\ bhistory = <<>>
    /\ targets \in CapacityTargets
    /\ \E flag \in {None, Some(TRUE), Some(FALSE)} :
          config = Config(None, None, None, <<>>,
                          [r \in RuleNames |-> IF r = "capacity_check" THEN flag ELSE None])
    /\ assignments \in CapacityAssignments
    /\ available = <<>>
    /\ ti = 0 /\ attempt = 0
    /\ spc = "start" /\ sresult = NoResult

\* capacity_check.rs:13-81: validate runs and returns Ok(ValidationResult)
CapacityValidate ==
    /\ program = "capacity_check" /\ spc = "start"
    /\ sresult' = [ok |-> TRUE,
                   result |-> capacity_check(assignments, participants, targets,
                                             config.strict["capacity_check"])]
    /\ spc' = "done"
    /\ UNCHANGED <<program, cvars, hvars, gvars, lvars, callvars, evars, available, assignments, ti, attempt>>

----------------------------------------------------------------------------
(* A direct call of AvailabilityCheckValidator::validate *)

AMaxP == 2
AMaxAsg == 2

\* up to AMaxAsg assignments to target 1; the participant ids run one past
\* AMaxP, so that an assignment may name a participant the list does not hold
AvailabilityAssignments ==
    UNION { { [i \in 1..n |-> Assignment(pid[i], 1, Frac(1, 2))] :
                pid \in [1..n -> 1..(AMaxP + 1)] } : n \in 0..AMaxAsg }

InitAvailabilityCheck ==
    /\ program = "availability_check"
    /\ LegacyIdle /\ EngineIdle
    /\ rule_outcome = None
    /\ strategy_name = "" /\ targets = <<>> /\ bhistory = <<>>
    /\ participants \in ParticipantLists(AMaxP, {{}}, {None, Some(TRUE), Some(FALSE)})
    /\ \E flag \in {None, Some(TRUE), Some(FALSE)} :
          config = Config(None, None, None, <<>>,
                          [r \in RuleNames |-> IF r = "availability_check" THEN flag ELSE None])
    /\ assignments \in AvailabilityAssignments
    /\ available = <<>>
    /\ ti = 0 /\ attempt = 0
    /\ spc = "start" /\ sresult = NoResult

\* availability_check.rs:13-71: validate runs and returns Ok(ValidationResult)
AvailabilityValidate ==
    /\ program = "availability_check" /\ spc = "start"
    /\ sresult' = [ok |-> TRUE,
                   result |-> availability_check(assignments, participants, targets,
                                                 config.strict["availability_check"])]
    /\ spc' = "done"
    /\ UNCHANGED <<program, cvars, hvars, gvars, lvars, callvars, evars, available, assignments, ti, attempt>>

----------------------------------------------------------------------------
(* A direct call of SkillMatchingValidator::validate *)

SMaxP == 2

\* the target lists of the call: none, one target that requires no skill, two
\* skills or three, and two targets of which the second requires three
SkillTargets ==
    { <<>>,
      << Target(1, Some(TName(1)), Some(1), {}) >>,
      << Target(1, Some(TName(1)), Some(1), {"s1", "s2"}) >>,
      << Target(1, Some(TName(1)), Some(1), {"s1", "s2", "s3"}) >>,
      << Target(1, Some(TName(1)), Some(1), {"s1", "s2"}),
         Target(2, Some(TName(2)), Some(1), {"s1", "s2", "s3"}) >> }

\* one assignment for each participant that was given a target (at[i] > 0), in
\* the order of the participants
SkillAssignments(ps, ts) ==
    { LET given == SelectSeq([i \in 1..Len(ps) |-> i], LAMBDA i : at[i] > 0)
      IN  [k \in 1..Len(given) |-> Assignment(ps[given[k]].id, at[given[k]], Frac(1, 2))] :
          at \in [1..Len(ps) -> 0..Len(ts)] }

InitSkillMatching ==
    /\ program = "skill_matching"
    /\ LegacyIdle /\ EngineIdle
    /\ rule_outcome = None
    /\ strategy_name = "" /\ bhistory = <<>>
    /\ participants \in ParticipantLists(SMaxP, PSkillSets, {None})
    /\ targets \in SkillTargets
    /\ \E flag \in {None, Some(TRUE), Some(FALSE)} :
          config = Config(None, None, None, <<>>,
                          [r \in RuleNames |-> IF r = "skill_matching" THEN flag ELSE None])
    /\ assignments \in SkillAssignments(participants, targets)
    /\ available = <<>>
    /\ ti = 0 /\ attempt = 0
    /\ spc = "start" /\ sresult = NoResult

\* skill_matching.rs:11-79: validate runs and returns Ok(ValidationResult)
SkillValidate ==
    /\ program = "skill_matching" /\ spc = "start"
    /\ sresult' = [ok |-> TRUE,
                   result |-> skill_matching(assignments, participants, targets,
                                             config.strict["skill_matching"])]
    /\ spc' = "done"
    /\ UNCHANGED <<program, cvars, hvars, gvars, lvars, callvars, evars, available, assignments, ti, attempt>>

----------------------------------------------------------------------------
(* RuleEngine: services/rule_engine.rs *)

\* rule_engine.rs:86-108: an engine with its registries filled at start-up
RuleEngine(mode) ==
    [strategies |-> StrategyNames,
     validators |-> RuleNames,
     config |-> [default_strategy |-> "balanced_rotation", validation_mode |-> mode]]

\* a lookup that falls back to the configured default strategy
lookup_strategy_or_default(engine, name) ==
    IF name \in engine.strategies THEN Some(name) ELSE Some(engine.config.default_strategy)

\* rule_engine.rs:121-124: self.strategies.get(strategy_name)
lookup_strategy(engine, name) ==
    IF name \in engine.strategies THEN Some(name) ELSE None

\* rule_engine.rs:166-176: the `strict` flag of parameters["validation_<rule>"]
rule_config(cfg, rule) == cfg.strict[rule]

\* rule_engine.rs:156-199: one result per listed rule that is registered, in the
\* order of the list; a name that is not registered is skipped
\* rule_engine.rs:178-192: a validator's result is kept as it is; a validator
\* that fails is recorded as a failed result of severity Error
collected(rule_name, r) ==
    IF r.ok THEN r.assignments
    ELSE ValidationResult(rule_name, FALSE, Message("validation_error", <<r.error>>), "Error")

\* a loop that ends at the first name without a registered validator
RECURSIVE run_validations_until_unknown(_, _, _, _, _, _, _)
run_validations_until_unknown(engine, asg, ps, ts, cfg, outcome, k) ==
    IF k > Len(cfg.validation_rules) THEN <<>>
    ELSE LET rule_name == cfg.validation_rules[k]
         IN  IF rule_name \in engine.validators
             THEN << collected(rule_name,
                               validate(rule_name, asg, ps, ts,
                                        rule_config(cfg, rule_name), outcome)) >>
                  \o run_validations_until_unknown(engine, asg, ps, ts, cfg, outcome, k + 1)
             ELSE <<>>

RECURSIVE run_validations_from(_, _, _, _, _, _, _)
run_validations_from(engine, asg, ps, ts, cfg, outcome, k) ==
    IF k > Len(cfg.validation_rules) THEN <<>>
    ELSE LET rule_name == cfg.validation_rules[k]
         IN  (IF rule_name \in engine.validators
              THEN << collected(rule_name,
                                validate(rule_name, asg, ps, ts,
                                         rule_config(cfg, rule_name), outcome)) >>
              ELSE <<>>)
             \o run_validations_from(engine, asg, ps, ts, cfg, outcome, k + 1)

\* a BestEffort engine that drops the results that did not pass
run_validations_remediating(engine, asg, ps, ts, cfg, outcome) ==
    IF engine.config.validation_mode = "BestEffort"
    THEN SelectSeq(run_validations_from(engine, asg, ps, ts, cfg, outcome, 1),
                   LAMBDA r : r.passed)
    ELSE run_validations_from(engine, asg, ps, ts, cfg, outcome, 1)

run_validations(engine, asg, ps, ts, cfg, outcome) ==
    run_validations_from(engine, asg, ps, ts, cfg, outcome, 1)

\* the validators run_validations calls, in order
RECURSIVE validators_called(_, _, _)
validators_called(engine, cfg, k) ==
    IF k > Len(cfg.validation_rules) THEN <<>>
    ELSE (IF cfg.validation_rules[k] \in engine.validators
          THEN << "validate" >> ELSE <<>>) \o validators_called(engine, cfg, k + 1)

\* a failing result that strict mode does not let through
Blocking(r) == ~r.passed /\ (r.severity = "Error" \/ r.severity = "Critical")

\* a strict check that lets a failed result of severity Critical through
check_validation_results_error_only(engine, results) ==
    IF /\ engine.config.validation_mode = "Strict"
       /\ \E i \in 1..Len(results) : ~results[i].passed /\ results[i].severity = "Error"
    THEN LET first == CHOOSE i \in 1..Len(results) :
                          ~results[i].passed /\ results[i].severity = "Error"
         IN  Err([kind |-> "validation_failed",
                  rule |-> results[first].rule_name,
                  message |-> results[first].message])
    ELSE [ok |-> TRUE]

\* rule_engine.rs:201-236: Ok, or in strict mode the error made of the first
\* blocking result
check_validation_results(engine, results) ==
    IF /\ engine.config.validation_mode = "Strict"
       /\ \E i \in 1..Len(results) : Blocking(results[i])
    THEN LET first == CHOOSE i \in 1..Len(results) :
                          Blocking(results[i]) /\ \A k \in 1..(i - 1) : ~Blocking(results[k])
         IN  Err([kind |-> "validation_failed",
                  rule |-> results[first].rule_name,
                  message |-> results[first].message])
    ELSE [ok |-> TRUE]

\* rule_engine.rs:142-153: the AssignmentResult
AssignmentResult(strategy_used, asg, results) ==
    [ok |-> TRUE,
     result |-> [strategy_used |-> strategy_used, assignments |-> asg,
                 attempts |-> 1, validation_results |-> results]]

\* the rule lists and strict flags of a call: the built-in rules listed are
\* given the same flag, or none; next to the outside rule they are given none
RuleLists ==
    { <<>>, <<"capacity_check">>, <<"availability_check">>, <<"skill_matching">>,
      <<"capacity_check", "availability_check">>,
      <<"no_such_rule", "capacity_check">>,
      <<"custom_rule">>, <<"custom_rule", "capacity_check">> }

StrictFlags(rules) ==
    { [r \in RuleNames |-> IF r \in Range(rules) /\ r # "custom_rule" THEN flag ELSE None] :
         flag \in (IF "custom_rule" \in Range(rules) THEN {None}
                   ELSE {None, Some(TRUE), Some(FALSE)}) }

\* the parameters balanced rotation is configured with: defaults, a weight out
\* of range, no attempts allowed, one attempt
BalancedParams ==
    { [rw |-> None, ma |-> None], [rw |-> JF64(3, 2), ma |-> None],
      [rw |-> None, ma |-> JU64(0)], [rw |-> None, ma |-> JU64(1)] }

\* the required_count values of the targets of an engine call
EngineCounts == {1, 2}

\* a call of RuleEngine::execute_assignment
InitEngine ==
    /\ program = "engine"
    /\ LegacyIdle /\ StrategyIdle
    /\ strategy_name \in StrategyNames \cup {"no_such_strategy"}
    /\ participants \in ParticipantLists(EMaxP, {{"s1"}}, {None, Some(FALSE)})
    /\ targets \in TargetLists(EMaxT, EngineCounts, TSkillSets, "none")
    /\ \E rules \in RuleLists : \E strict \in StrictFlags(rules) :
          IF strategy_name = "balanced_rotation"
          THEN \E bp \in BalancedParams :
                  config = Config(bp.rw, None, bp.ma, rules, strict)
          ELSE config = Config(None, None, None, rules, strict)
    /\ bhistory = <<>>
    /\ IF "custom_rule" \in Range(config.validation_rules)
       THEN rule_outcome \in RuleOutcomes
       ELSE rule_outcome = None
    /\ epc = "start" /\ calls = <<>> /\ estrategy = None
    /\ eassignments = None /\ eattempts = 0
    /\ validation_results = [m \in Modes |-> <<>>]
    /\ eresult = [m \in Modes |-> NoResult]

\* a call of execute_assignment whose participant list holds two entities with
\* the same id: nothing in the signature (rule_engine.rs:110-116) rules it out
InitEngineSharedId ==
    /\ program = "engine"
    /\ LegacyIdle /\ StrategyIdle
    /\ strategy_name = "balanced_rotation"
    /\ participants = << Participant(1, {}, None), Participant(1, {}, None),
                         Participant(2, {}, None) >>
    /\ \E rc \in EngineCounts :
          targets = << Target(1, Some(TName(1)), Some(1), {}),
                       Target(2, Some(TName(2)), Some(rc), {}) >>
    /\ \E ma \in {None, JU64(1), JU64(2)}, rules \in {<<>>, <<"capacity_check">>} :
          config = Config(None, None, ma, rules, NoStrict)
    /\ bhistory = <<>>
    /\ rule_outcome = None
    /\ epc = "start" /\ calls = <<>> /\ estrategy = None
    /\ eassignments = None /\ eattempts = 0
    /\ validation_results = [m \in Modes |-> <<>>]
    /\ eresult = [m \in Modes |-> NoResult]

\* rule_engine.rs:118-124: the lookup; an unknown name ends the call
ELookup ==
    /\ program = "engine" /\ epc = "start"
    /\ LET found == lookup_strategy(RuleEngine("Strict"), strategy_name) IN
          /\ estrategy' = found
          /\ IF found.some
             THEN epc' = "validate_config" /\ eresult' = eresult
             ELSE /\ epc' = "done"
                  /\ eresult' = [m \in Modes |->
                                   Err([kind |-> "strategy_not_found", name |-> strategy_name])]
    /\ UNCHANGED <<program, cvars, hvars, gvars, lvars, callvars, svars, calls, eassignments, eattempts,
                   validation_results>>

\* a pipeline that calls validate_config and goes on whatever it answers
EValidateConfigIgnored ==
    /\ program = "engine" /\ epc = "validate_config"
    /\ calls' = Append(calls, "validate_config")
    /\ epc' = "execute"
    /\ UNCHANGED <<program, cvars, hvars, gvars, lvars, callvars, svars, estrategy, eassignments, eattempts,
                   validation_results, eresult>>

\* rule_engine.rs:126-127: strategy.validate_config(&config)?
EValidateConfig ==
    /\ program = "engine" /\ epc = "validate_config"
    /\ calls' = Append(calls, "validate_config")
    /\ LET r == strategy_validate_config(estrategy.v, config) IN
          IF r.ok
          THEN epc' = "execute" /\ eresult' = eresult
          ELSE epc' = "done" /\ eresult' = [m \in Modes |-> r]
    /\ UNCHANGED <<program, cvars, hvars, gvars, lvars, callvars, svars, estrategy, eassignments, eattempts,
                   validation_results>>

\* rule_engine.rs:129-130: strategy.execute(..).await?
EExecute ==
    /\ program = "engine" /\ epc = "execute"
    /\ calls' = Append(calls, "execute")
    /\ \E out \in strategy_execute(estrategy.v, participants, targets, config, bhistory) :
          /\ eattempts' = out.attempts
          /\ IF out.ok
             THEN /\ eassignments' = Some(out.assignments)
                  /\ epc' = "validations"
                  /\ eresult' = eresult
             ELSE /\ eassignments' = None
                  /\ epc' = "done"
                  /\ eresult' = [m \in Modes |-> Err(out.error)]
    /\ UNCHANGED <<program, cvars, hvars, gvars, lvars, callvars, svars, estrategy, validation_results>>

\* rule_engine.rs:132-135: run_validations, in each engine
ERunValidations ==
    /\ program = "engine" /\ epc = "validations"
    /\ validation_results' =
          [m \in Modes |->
              run_validations(RuleEngine(m), eassignments.v, participants, targets, config,
                              rule_outcome)]
    /\ calls' = calls \o validators_called(RuleEngine("Strict"), config, 1)
    /\ epc' = "check"
    /\ UNCHANGED <<program, cvars, hvars, gvars, lvars, callvars, svars, estrategy, eassignments, eattempts, eresult>>

\* rule_engine.rs:137-153: check_validation_results, then the result is packaged
ECheck ==
    /\ program = "engine" /\ epc = "check"
    /\ eresult' =
          [m \in Modes |->
              IF check_validation_results(RuleEngine(m), validation_results[m]).ok
              THEN AssignmentResult(strategy_name, eassignments.v, validation_results[m])
              ELSE check_validation_results(RuleEngine(m), validation_results[m])]
    /\ epc' = "done"
    /\ UNCHANGED <<program, cvars, hvars, gvars, lvars, callvars, svars, calls, estrategy, eassignments,
                   eattempts, validation_results>>

EngineNext == ELookup \/ EValidateConfig \/ EExecute \/ ERunValidations \/ ECheck

----------------------------------------------------------------------------

----------------------------------------------------------------------------
(* The history keepers: history.rs (a JSON file) and db.rs (a table) *)

\* neither history keeper is in use
ServicesIdle ==
    /\ hpc = "idle" /\ hsaves = 0 /\ hrows = {}
    /\ hfile = [p \in {"p1", "p2"} |-> <<>>]
    /\ fetched = [some |-> FALSE]
    /\ gpc = "idle" /\ writes = 0 /\ seen = {} /\ entities = <<>>
    /\ g_participants = {} /\ g_targets = {} /\ handed = [some |-> FALSE]

\* history.rs:20-24 and db.rs: no history file yet (load_history gives an empty
\* History), or an empty assignments table.  A person without an entry is a
\* person with the empty list: no entry of History is ever empty.
InitHistory ==
    /\ program \in {"history_file", "history_db"}
    /\ LegacyIdle /\ CallerIdle /\ CallIdle /\ StrategyIdle /\ EngineIdle
    /\ hpc = "open" /\ hsaves = 0 /\ hrows = {}
    /\ hfile = [p \in {"p1", "p2"} |-> <<>>]
    /\ fetched = [some |-> FALSE]
    /\ gpc = "idle" /\ writes = 0 /\ seen = {} /\ entities = <<>>
    /\ g_participants = {} /\ g_targets = {} /\ handed = [some |-> FALSE]

\* a history list that grows without bound
person_history_insert_only(person_history, area) ==
    <<area>> \o person_history

\* history.rs:53-55: insert(0, area), then truncate(HISTORY_LENGTH)
person_history_insert(person_history, area) ==
    LET inserted == <<area>> \o person_history
    IN  Take(inserted, Min(HISTORY_LENGTH, Len(inserted)))

\* history.rs:48-67: save_history on what load_history read from the file the
\* last save wrote.  assignments gives every person at most one area ("-": none),
\* as distribute_work does, so the order of the HashMap does not matter.
SaveHistory ==
    /\ program = "history_file" /\ hpc = "open" /\ hsaves < MaxSaves
    /\ \E area_of \in [{"p1", "p2"} -> {"-", "A", "B"}] :
          /\ hfile' = [p \in DOMAIN hfile |->
                          IF area_of[p] = "-" THEN hfile[p]
                          ELSE person_history_insert(hfile[p], area_of[p])]
          /\ hrows' = hrows \cup
                {[person |-> p, task_name |-> area_of[p], assigned_at |-> hsaves + 1] :
                    p \in {q \in DOMAIN area_of : area_of[q] # "-"}}
    /\ hsaves' = hsaves + 1
    /\ UNCHANGED <<program, cvars, lvars, bvars, gvars, hpc, fetched>>

\* db.rs:256-279: save_assignments: one row, stamped now, for every assigned
\* name that has an id; "p3" has none
SaveAssignments ==
    /\ program = "history_db" /\ hpc = "open" /\ hsaves < MaxSaves
    /\ \E task_of \in [{"p1", "p2", "p3"} -> {"-", "A", "B"}],
          name_to_id \in {[p1 |-> 1, p2 |-> 2], [p1 |-> 1]} :
          hrows' = hrows \cup
             {[person_id |-> name_to_id[name], task_name |-> task_of[name],
               assigned_at |-> hsaves + 1] :
                 name \in {n \in DOMAIN task_of :
                              task_of[n] # "-" /\ n \in DOMAIN name_to_id}}
    /\ hsaves' = hsaves + 1
    /\ UNCHANGED <<program, cvars, lvars, bvars, gvars, hpc, hfile, fetched>>

\* db.rs:207-231: the rows are loaded newest first (rows of one assigned_at in
\* any order) and each row whose person_id has a name is pushed to the list of
\* that name while the list is shorter than 2: every history_map possible
RECURSIVE fetch_history(_, _, _)
fetch_history(all_assignments, name_to_id, history_map) ==
    IF all_assignments = {} THEN {history_map}
    ELSE LET newest == CHOOSE t \in {r.assigned_at : r \in all_assignments} :
                           \A r \in all_assignments : r.assigned_at <= t
             pushed(assignment) ==
                 LET names == {n \in DOMAIN name_to_id :
                                  name_to_id[n] = assignment.person_id}
                 IN  IF names = {} THEN history_map
                     ELSE LET name == CHOOSE n \in names : TRUE
                          IN  IF Len(history_map[name]) < 2
                              THEN [n \in DOMAIN history_map |->
                                       IF n = name
                                       THEN Append(history_map[n], assignment.task_name)
                                       ELSE history_map[n]]
                              ELSE history_map
         IN  UNION {fetch_history(all_assignments \ {assignment}, name_to_id,
                                  pushed(assignment)) :
                       assignment \in {r \in all_assignments : r.assigned_at = newest}}

\* db.rs:201-232: a call of fetch_history
FetchHistory ==
    /\ program = "history_db" /\ hpc = "open"
    /\ \E name_to_id \in {[p1 |-> 1, p2 |-> 2], [p1 |-> 1]} :
          \E history_map \in fetch_history(hrows, name_to_id,
                                           [p \in {"p1", "p2"} |-> <<>>]) :
             fetched' = [some |-> TRUE, name_to_id |-> name_to_id,
                         history_map |-> history_map]
    /\ hpc' = "done"
    /\ UNCHANGED <<program, cvars, lvars, bvars, gvars, hsaves, hrows, hfile>>

----------------------------------------------------------------------------
(* The entity store and generate_assignments: entity_manager.rs, work_groups.rs *)

\* main.rs:85 and api/work_groups.rs:56-60: the store holds one participant and
\* one target, both Active, when a request for assignments comes in; other
\* requests are served beside it.  An entity is "absent" until created; rev
\* counts its updates.
InitStore ==
    /\ program = "store"
    /\ LegacyIdle /\ CallerIdle /\ CallIdle /\ StrategyIdle /\ EngineIdle
    /\ hpc = "idle" /\ hsaves = 0 /\ hrows = {}
    /\ hfile = [p \in {"p1", "p2"} |-> <<>>]
    /\ fetched = [some |-> FALSE]
    /\ gpc = "read_participants" /\ writes = 0
    /\ entities = [t \in {"participant", "assignment_target"} |->
                      [i \in {1, 2} |->
                          [status |-> IF i = 1 THEN "Active" ELSE "absent", rev |-> 0]]]
    /\ seen = {entities}
    /\ g_participants = {} /\ g_targets = {} /\ handed = [some |-> FALSE]

\* entity_manager.rs:67-77: under the read lock, the Active entities of the type
list_entities(store, entity_type) ==
    {[id |-> i, rev |-> store[entity_type][i].rev] :
        i \in {j \in DOMAIN store[entity_type] :
                  store[entity_type][j].status = "Active"}}

\* entity_manager.rs:27-52: create_entity, under the write lock: a fresh id
CreateEntity ==
    /\ program = "store" /\ gpc # "done" /\ writes < MaxWrites
    /\ \E entity_type \in DOMAIN entities :
          \E i \in DOMAIN entities[entity_type] :
             /\ entities[entity_type][i].status = "absent"
             /\ \A j \in DOMAIN entities[entity_type] :
                   j < i => entities[entity_type][j].status # "absent"
             /\ entities' = [entities EXCEPT
                                ![entity_type][i] = [status |-> "Active", rev |-> 0]]
    /\ seen' = seen \cup {entities'}
    /\ writes' = writes + 1
    /\ UNCHANGED <<program, cvars, lvars, bvars, hvars, gpc, g_participants, g_targets, handed>>

\* entity_manager.rs:80-112: update_entity, under the write lock
UpdateEntity ==
    /\ program = "store" /\ gpc # "done" /\ writes < MaxWrites
    /\ \E entity_type \in DOMAIN entities :
          \E i \in DOMAIN entities[entity_type] :
             /\ entities[entity_type][i].status # "absent"
             /\ entities' = [entities EXCEPT ![entity_type][i].rev = @ + 1]
    /\ seen' = seen \cup {entities'}
    /\ writes' = writes + 1
    /\ UNCHANGED <<program, cvars, lvars, bvars, hvars, gpc, g_participants, g_targets, handed>>

\* entity_manager.rs:115-131: delete_entity, under the write lock: the entity
\* is archived
DeleteEntity ==
    /\ program = "store" /\ gpc # "done" /\ writes < MaxWrites
    /\ \E entity_type \in DOMAIN entities :
          \E i \in DOMAIN entities[entity_type] :
             /\ entities[entity_type][i].status # "absent"
             /\ entities' = [entities EXCEPT ![entity_type][i].status = "Archived"]
    /\ seen' = seen \cup {entities'}
    /\ writes' = writes + 1
    /\ UNCHANGED <<program, cvars, lvars, bvars, hvars, gpc, g_participants, g_targets, handed>>

\* work_groups.rs:62-68: list_entities("participant").await
GenReadParticipants ==
    /\ program = "store" /\ gpc = "read_participants"
    /\ g_participants' = list_entities(entities, "participant")
    /\ gpc' = "read_targets"
    /\ UNCHANGED <<program, cvars, lvars, bvars, hvars, entities, seen, writes, g_targets, handed>>

\* work_groups.rs:71-77: list_entities("assignment_target").await
GenReadTargets ==
    /\ program = "store" /\ gpc = "read_targets"
    /\ g_targets' = list_entities(entities, "assignment_target")
    /\ gpc' = "execute"
    /\ UNCHANGED <<program, cvars, lvars, bvars, hvars, entities, seen, writes,
                   g_participants, handed>>

\* work_groups.rs:79-126: the lists are filtered by the ids of the request (an
\* empty list of ids keeps all) and given to execute_assignment
GenExecute ==
    /\ program = "store" /\ gpc = "execute"
    /\ \E request_participants \in {{}, {1}}, request_targets \in {{}, {1}} :
          handed' =
             [some |-> TRUE,
              participants |->
                 IF request_participants = {} THEN g_participants
                 ELSE {p \in g_participants : p.id \in request_participants},
              targets |->
                 IF request_targets = {} THEN g_targets
                 ELSE {t \in g_targets : t.id \in request_targets}]
    /\ gpc' = "done"
    /\ UNCHANGED <<program, cvars, lvars, bvars, hvars, entities, seen, writes,
                   g_participants, g_targets>>

Init ==
    \/ InitLegacy /\ CallerIdle /\ CallIdle /\ StrategyIdle /\ EngineIdle /\ ServicesIdle
    \/ InitCaller /\ LegacyIdle /\ CallIdle /\ StrategyIdle /\ EngineIdle /\ ServicesIdle
    \/ InitStrategy /\ CallerIdle /\ ServicesIdle
    \/ InitValidateConfig /\ CallerIdle /\ ServicesIdle
    \/ InitEngine /\ CallerIdle /\ ServicesIdle
    \/ InitEngineSharedId /\ CallerIdle /\ ServicesIdle
    \/ InitCapacityCheck /\ CallerIdle /\ ServicesIdle
    \/ InitAvailabilityCheck /\ CallerIdle /\ ServicesIdle
    \/ InitSkillMatching /\ CallerIdle /\ ServicesIdle
    \/ InitHistory
    \/ InitStore

Next ==
    \/ LegacyNext \/ CallerNext \/ StrategyNext \/ BalValidateConfig \/ EngineNext
    \/ CapacityValidate \/ AvailabilityValidate \/ SkillValidate
    \/ SaveHistory \/ SaveAssignments \/ FetchHistory
    \/ CreateEntity \/ UpdateEntity \/ DeleteEntity
    \/ GenReadParticipants \/ GenReadTargets \/ GenExecute

Spec == Init /\ [][Next]_vars

----------------------------------------------------------------------------
(* Properties of the solvers *)

\* no (participant_id, target_id) pair twice in an assignment list
NoDuplicatePair(asg) ==
    \A i, j \in 1..Len(asg) :
        (i # j) => ~(/\ asg[i].participant_id = asg[j].participant_id
                     /\ asg[i].target_id = asg[j].target_id)

\* no participant twice in an assignment list
NoParticipantTwice(asg) ==
    \A i, j \in 1..Len(asg) : (i # j) => asg[i].participant_id # asg[j].participant_id

StrategyReturned == program = "strategy" /\ spc = "done" /\ sresult.ok

\* the places of all legacy domains together
RECURSIVE SumCounts(_)
SumCounts(i) ==
    IF i > Len(work_assignments) THEN 0 ELSE work_assignments[i].count + SumCounts(i + 1)

\* everybody the legacy map holds, domain after domain
RECURSIVE LAssigned(_, _)
LAssigned(asg, i) ==
    IF i > Len(work_assignments) THEN <<>>
    ELSE asg[work_assignments[i].domain] \o LAssigned(asg, i + 1)

NoRepeat(s) == \A i, j \in 1..Len(s) : (i # j) => s[i] # s[j]

\* the people distribute_work can still hand out
LPool ==
    IF lpc \in {"toilet_a", "toilet_b"}
    THEN Range(available_a) \cup Range(available_b)
    ELSE IF lpc = "start" THEN Range(names_a) \cup Range(names_b)
    ELSE Range(remaining_people)

\* C3: a result returned by a strategy holds no (participant_id, target_id) pair
\* more than once.
C3_NoDuplicatePairInResult ==
    StrategyReturned => NoDuplicatePair(sresult.assignments)

\* C4: in the legacy solver and in a balanced-rotation attempt a participant is
\* assigned to at most one target, and whoever is assigned has left the pool the
\* later targets draw from.
C4_AtMostOneTarget ==
    /\ program = "legacy" =>
          /\ NoRepeat(LAssigned(lassignments, 1))
          /\ Range(LAssigned(lassignments, 1)) \cap LPool = {}
    /\ (program = "strategy" /\ strategy_name = "balanced_rotation") =>
          /\ NoParticipantTwice(assignments)
          /\ spc = "targets" =>
                {assignments[i].participant_id : i \in 1..Len(assignments)}
                    \cap ids(available) = {}
          /\ (spc = "done" /\ sresult.ok) => NoParticipantTwice(sresult.assignments)

\* C4 witness: the legacy solver returned with all eighteen places filled
C4_Witness ==
    /\ program = "legacy" /\ lpc = "done"
    /\ Len(LAssigned(lassignments, 1)) = SumCounts(1)

\* C5: at every step, and in every result, no target holds more participants than
\* its required_count (the default 1 the strategy reads when the attribute is
\* missing).
C5_NeverAboveRequired ==
    /\ program = "legacy" =>
          \A d \in LDomains : Len(lassignments[d]) <= CountOf(d)
    /\ program = "strategy" =>
          /\ \A j \in 1..Len(targets) :
                AssignedTo(assignments, targets[j].id) <= required_or_default(targets[j])
          /\ (spc = "done" /\ sresult.ok) =>
                \A j \in 1..Len(targets) :
                    AssignedTo(sresult.assignments, targets[j].id)
                        <= required_or_default(targets[j])

\* C5 witness: the skill-based strategy returned, and a target it filled to the
\* brim had more suitable participants than places
C5_Witness ==
    /\ StrategyReturned /\ strategy_name = "skill_based"
    /\ \E j \in 1..Len(targets) :
          /\ targets[j].required_count.some
          /\ AssignedTo(sresult.assignments, targets[j].id) = targets[j].required_count.v
          /\ Len(suitable_participants(participants, targets[j])) > targets[j].required_count.v

RECURSIVE SumRequired(_, _)
SumRequired(ts, j) ==
    IF j > Len(ts) THEN 0 ELSE required_or_default(ts[j]) + SumRequired(ts, j + 1)

WellFormedTargets ==
    \A j \in 1..Len(targets) : targets[j].name.some /\ targets[j].required_count.some

\* enough candidates for every target
SufficientInput ==
    \/ /\ program = "legacy"
       /\ Len(names_a) >= CountOf("Toilet A")
       /\ Len(names_b) >= CountOf("Toilet B")
       /\ Len(names_a) + Len(names_b) >= SumCounts(1)
    \/ /\ program = "strategy" /\ strategy_name = "balanced_rotation"
       /\ WellFormedTargets
       /\ SumRequired(targets, 1) <= Len(participants)

FilledExactly ==
    \/ /\ program = "legacy" /\ lpc = "done"
       /\ \A d \in LDomains : Len(lassignments[d]) = CountOf(d)
    \/ /\ StrategyReturned
       /\ \A j \in 1..Len(targets) :
             AssignedTo(sresult.assignments, targets[j].id) = targets[j].required_count.v

Returned ==
    \/ program = "legacy" /\ lpc = "done"
    \/ program = "strategy" /\ spc = "done"

\* C6: with enough candidates for every target (and targets that carry a name and
\* a required_count) solving ends: until it has returned a step is always
\* possible, balanced rotation needs no second attempt, and what is returned
\* holds exactly required_count participants for every target.
C6_SufficientInputIsFilled ==
    SufficientInput =>
        /\ Returned => FilledExactly
        /\ ~Returned => ENABLED Next
        /\ program = "strategy" => attempt <= 1

\* C6 witness: balanced rotation had just enough participants and returned every
\* target filled, one of them with two places
C6_Witness ==
    /\ StrategyReturned /\ strategy_name = "balanced_rotation"
    /\ SufficientInput
    /\ SumRequired(targets, 1) = Len(participants)
    /\ \E j \in 1..Len(targets) : AssignedTo(sresult.assignments, targets[j].id) = 2
    /\ \A j \in 1..Len(targets) :
          AssignedTo(sresult.assignments, targets[j].id) = targets[j].required_count.v

\* C7: an attempt in which a target has fewer candidates left than it needs ends
\* in an error naming the target and what is missing; no under-filled assignment
\* set is returned.
C7_NoUnderfilledResult ==
    /\ (program = "legacy" /\ lpc = "done") =>
          \A d \in LDomains : Len(lassignments[d]) >= CountOf(d)
    /\ (program = "strategy" /\ strategy_name = "balanced_rotation"
        /\ spc = "done" /\ sresult.ok) =>
          \A j \in 1..Len(targets) :
              AssignedTo(sresult.assignments, targets[j].id) >= targets[j].required_count.v

\* C8: whoever is assigned to Toilet A comes from group A, whoever is assigned to
\* Toilet B from group B, at every step and in the result.
C8_ToiletsKeepTheirGroup ==
    program = "legacy" =>
        /\ Range(lassignments["Toilet A"]) \subseteq Range(names_a)
        /\ Range(lassignments["Toilet B"]) \subseteq Range(names_b)

\* C8 witness: group B is too small for Toilet B, which stays short, while
\* Toilet A and the Parlor are full: people of group A were left over and none
\* of them went to Toilet B
C8_Witness ==
    /\ program = "legacy" /\ lpc = "done"
    /\ Len(lassignments["Toilet A"]) = CountOf("Toilet A")
    /\ Len(lassignments["Toilet B"]) \in 1..(CountOf("Toilet B") - 1)
    /\ Len(lassignments["Parlor"]) = CountOf("Parlor")

\* C9: the legacy solver never assigns a person to the domain the person's most
\* recent history entry names.
C9_NoAssignmentInCooldown ==
    (program = "legacy" /\ lpc = "done") =>
        \A d \in LDomains : \A p \in Range(lassignments[d]) :
            ~was_previously_assigned(lhistory, p, d)

----------------------------------------------------------------------------
(* The RuleEngine pipeline *)

\* execute_assignment has returned
EngineDone == program = "engine" /\ epc = "done"

\* execute_assignment has returned after the validators ran on a strategy's output
Validated == EngineDone /\ eassignments.some

\* the collected results with passed = false and severity Error or Critical
Failing(rs) ==
    {i \in 1..Len(rs) : ~rs[i].passed /\ rs[i].severity \in {"Error", "Critical"}}

\* C1: in Strict mode execute_assignment returns an error that names the rule and
\* the message of a failing result, and no AssignmentResult, whenever a collected
\* ValidationResult has passed = false and severity Error or Critical; when there
\* is no such result it returns Ok with the assignments of the strategy.
C1_StrictGate ==
    Validated =>
        LET rs == validation_results["Strict"]
            r == eresult["Strict"]
        IN  IF Failing(rs) # {}
            THEN /\ ~r.ok
                 /\ r.error.kind = "validation_failed"
                 /\ \E i \in Failing(rs) :
                       r.error.rule = rs[i].rule_name /\ r.error.message = rs[i].message
            ELSE /\ r.ok
                 /\ r.result.assignments = eassignments.v

\* a strict call aborted by a failed result of severity Critical
C1_Witness ==
    /\ Validated
    /\ \E i \in Failing(validation_results["Strict"]) :
          validation_results["Strict"][i].severity = "Critical"
    /\ ~eresult["Strict"].ok
    /\ eresult["Strict"].error.kind = "validation_failed"

\* C2: for the same strategy output and the same validator outcomes the list of
\* ValidationResult entries is the same under Strict, Permissive and BestEffort;
\* Permissive and BestEffort always return Ok with that list; Strict returns
\* what they return unless a failing Error/Critical result is present, and
\* aborts only then.
C2_ModesAgree ==
    Validated =>
        /\ \A m \in Modes : validation_results[m] = validation_results["Strict"]
        /\ \A m \in {"Permissive", "BestEffort"} :
              /\ eresult[m].ok
              /\ eresult[m].result.validation_results = validation_results[m]
              /\ eresult[m].result.assignments = eassignments.v
        /\ eresult["BestEffort"] = eresult["Permissive"]
        /\ IF eresult["Strict"].ok
           THEN eresult["Strict"] = eresult["Permissive"]
           ELSE Failing(validation_results["Strict"]) # {}

\* the skill based strategy left a target short, the capacity check failed it:
\* Strict aborted, the other two modes returned the list with the failed result
C2_Witness ==
    /\ Validated
    /\ strategy_name = "skill_based"
    /\ ~eresult["Strict"].ok
    /\ eresult["Permissive"].ok /\ eresult["BestEffort"].ok
    /\ \E i \in Failing(eresult["Permissive"].result.validation_results) :
          eresult["Permissive"].result.validation_results[i].rule_name = "capacity_check"

\* C10: execute_assignment with a strategy name that is not registered fails at
\* once with the `not found` error: validate_config, execute and the validators
\* are never called, no attempt is made and the lookup is not repeated.
C10_UnknownStrategyFailsAtOnce ==
    (program = "engine" /\ strategy_name \notin RuleEngine("Strict").strategies) =>
        /\ calls = <<>>
        /\ ~estrategy.some /\ ~eassignments.some /\ eattempts = 0
        /\ epc \in {"start", "done"}
        /\ epc = "done" =>
              \A m \in Modes :
                 eresult[m] = Err([kind |-> "strategy_not_found", name |-> strategy_name])

\* the call with the unknown name has returned, with validators listed
C10_Witness ==
    /\ EngineDone
    /\ strategy_name \notin RuleEngine("Strict").strategies
    /\ config.validation_rules # <<>>
    /\ ~eresult["Strict"].ok

\* the strategy the lookup bound rejects the configuration of the call
ConfigRejected ==
    /\ program = "engine" /\ estrategy.some
    /\ ~strategy_validate_config(estrategy.v, config).ok

\* C11: in execute_assignment validate_config is called before execute (and
\* execute before any validator); when validate_config rejects the
\* configuration, execute is never called, no validator runs, and the caller
\* receives the rejection.
C11_ValidateConfigBeforeExecute ==
    program = "engine" =>
        /\ \A i \in 1..Len(calls) :
              /\ calls[i] = "execute" =>
                    \E j \in 1..(i - 1) : calls[j] = "validate_config"
              /\ calls[i] = "validate" =>
                    \E j \in 1..(i - 1) : calls[j] = "execute"
        /\ ConfigRejected =>
              /\ \A i \in 1..Len(calls) : calls[i] = "validate_config"
              /\ Len(calls) <= 1
              /\ ~eassignments.some
              /\ \A m \in Modes : validation_results[m] = <<>>
              /\ epc \in {"validate_config", "done"}
              /\ epc = "done" =>
                    /\ calls = <<"validate_config">>
                    /\ \A m \in Modes :
                          eresult[m] = strategy_validate_config(estrategy.v, config)

\* a call with validators listed has returned the rejection of a weight out of range
C11_Witness ==
    /\ ConfigRejected /\ epc = "done"
    /\ calls = <<"validate_config">>
    /\ config.validation_rules # <<>>
    /\ ~eresult["Strict"].ok
    /\ eresult["Strict"].error.kind = "invalid_config"
    /\ eresult["Strict"].error.param = "rotation_weight"

----------------------------------------------------------------------------
(* validate_config of balanced rotation *)

\* the number a parameter holds, when it holds one
IsNumber(v) == v.some /\ v.v.t \in {"u64", "i64", "f64"}
NumberOf(v) == IF v.v.t = "f64" THEN v.v.v ELSE Frac(v.v.n, 1)

\* a weight that is absent, or a number in [0, 1]
WeightInRange(v) ==
    v.some => /\ IsNumber(v)
              /\ FracLe(Frac(0, 1), NumberOf(v)) /\ FracLe(NumberOf(v), Frac(1, 1))

\* a max_attempts that is absent, or an integer in [1, 1000]
AttemptsInRange(v) ==
    v.some => v.v.t = "u64" /\ v.v.n >= 1 /\ v.v.n <= 1000

ValidateConfigReturned == program = "validate_config" /\ spc = "done"

\* C12: validate_config of balanced rotation returns Ok exactly when each of
\* rotation_weight, balance_weight and max_attempts that is present is in range
\* (a weight a number in [0,1], max_attempts an integer in [1,1000]); otherwise
\* it returns an error that names a parameter that is present and out of range
\* or of the wrong type.  Absent parameters are accepted.
C12_ValidateConfigRanges ==
    ValidateConfigReturned =>
        /\ sresult.ok <=> /\ WeightInRange(config.rotation_weight)
                          /\ WeightInRange(config.balance_weight)
                          /\ AttemptsInRange(config.max_attempts)
        /\ ~sresult.ok =>
              /\ sresult.error.kind = "invalid_config"
              /\ \/ /\ sresult.error.param = "rotation_weight"
                    /\ ~WeightInRange(config.rotation_weight)
                 \/ /\ sresult.error.param = "balance_weight"
                    /\ ~WeightInRange(config.balance_weight)
                 \/ /\ sresult.error.param = "max_attempts"
                    /\ ~AttemptsInRange(config.max_attempts)

\* weights on the ends of the range are accepted, max_attempts = 0 is rejected
\* by name
C12_Witness ==
    /\ ValidateConfigReturned
    /\ config.rotation_weight = JU64(0) /\ config.balance_weight = JU64(1)
    /\ config.max_attempts = JU64(0)
    /\ ~sresult.ok /\ sresult.error.param = "max_attempts"

----------------------------------------------------------------------------
(* The retry loop of balanced rotation *)

\* a direct call of balanced rotation's execute with a configuration its
\* validate_config accepts
BalancedCall ==
    /\ program = "strategy" /\ strategy_name = "balanced_rotation"
    /\ balanced_validate_config(config).ok

\* how far execute has come: attempts first, then the targets of the attempt
ExecuteRank ==
    LET K == Len(targets) + 3
    IN  IF spc = "done" THEN (get_max_attempts(config) + 1) * K
        ELSE attempt * K + (IF spc = "targets" THEN ti ELSE 0)

\* execute has a step to take: the loop entry or the shuffle, the return after
\* the last target, or the serving of target ti, which ends as Ok or as Err
StepLeft ==
    \/ spc \in {"start", "attempt"} /\ ENABLED (BalBegin \/ BalShuffle)
    \/ spc = "targets" /\ ti > Len(targets) /\ ENABLED BalReturn
    \/ /\ spc = "targets" /\ ti <= Len(targets)
       /\ balanced_target(available, assignments, targets[ti], bhistory, config).ok
             \in BOOLEAN

C13_Bounded ==
    BalancedCall =>
        /\ attempt <= get_max_attempts(config)
        /\ (spc = "done" /\ sresult.ok) =>
              /\ attempt >= 1
              /\ sresult.assignments = assignments
        /\ (spc = "done" /\ ~sresult.ok) =>
              /\ attempt = get_max_attempts(config)
              /\ sresult.error.kind = "attempts_exhausted"
              /\ sresult.error.attempts = attempt
              /\ ~balanced_target(available, <<>>, targets[ti], bhistory, config).ok
              /\ sresult.error.last =
                    balanced_target(available, <<>>, targets[ti], bhistory, config).error
        /\ spc = "done" => ~ENABLED StrategyNext
        /\ spc # "done" => StepLeft

C13_Advances ==
    BalancedCall =>
        /\ ExecuteRank' > ExecuteRank
        /\ ExecuteRank' <= (get_max_attempts(config) + 1) * (Len(targets) + 3)
        /\ (attempt' # attempt) => (attempt' = attempt + 1 /\ spc' = "attempt")

\* C13: under an accepted configuration execute of balanced rotation makes at
\* most max_attempts attempts, returns the list of the first attempt that
\* succeeds and stops there, returns after max_attempts failed attempts the
\* error that names the attempt count and the error of the last attempt, and
\* always terminates: every step advances a bounded rank, and only a call that
\* has returned has no step left.
C13_AtMostMaxAttempts == [](C13_Bounded) /\ [][C13_Advances]_vars

\* two attempts were allowed, both failed for want of participants
C13_Witness ==
    /\ BalancedCall /\ spc = "done"
    /\ get_max_attempts(config) = 2 /\ attempt = 2
    /\ ~sresult.ok /\ sresult.error.kind = "attempts_exhausted"
    /\ sresult.error.attempts = 2
    /\ sresult.error.last.kind = "not_enough"

----------------------------------------------------------------------------
(* The retry loop of the legacy caller *)

\* C14: the legacy caller calls distribute_work at most 500 times; it stops at
\* the first attempt that succeeds, so the assignments it keeps are those of
\* the last call made, and those are what it saves; when every attempt failed
\* it has made 500 calls and returns the error that names that count.
C14_CallerTriesAtMost500Times ==
    program = "caller" =>
        /\ dcalls <= 500
        /\ final_assignments.some => final_assignments.v.attempt = dcalls
        /\ (cpc = "loop") => (~final_assignments.some /\ dcalls = cattempt - 1)
        /\ (cpc = "after" /\ ~final_assignments.some) => dcalls = 500
        /\ (cpc = "done" /\ final_assignments.some) =>
              /\ save_arg = final_assignments
              /\ cresult.ok \/ cresult.error.kind = "save_failed"
        /\ (cpc = "done" /\ ~final_assignments.some /\ dcalls > 0) =>
              /\ dcalls = 500
              /\ ~save_arg.some
              /\ ~cresult.ok
              /\ cresult.error.kind = "no_valid_assignment"
              /\ cresult.error.attempts = 500

\* all 500 attempts failed and the caller returned the terminal error
C14_Witness ==
    /\ program = "caller" /\ cpc = "done"
    /\ dcalls = 500 /\ ~final_assignments.some
    /\ ~cresult.ok /\ cresult.error.attempts = 500

----------------------------------------------------------------------------
(* The attempt count of an AssignmentResult *)

----------------------------------------------------------------------------
(* Rule names without a validator *)

\* the listed rule names that have a registered validator, in the order of the list
ListedRegistered(m) ==
    SelectSeq(config.validation_rules, LAMBDA r : r \in RuleEngine(m).validators)

\* C16: a name in config.validation_rules without a registered validator is
\* skipped and does not fail the call: the collected list holds exactly one
\* entry for each listed registered rule, in the order of the list, each of
\* those validators was called, and the call ends as the collected results
\* alone decide.
C16_UnknownRuleIsSkipped ==
    (program = "engine" /\ epc \in {"check", "done"} /\ eassignments.some) =>
        /\ \A m \in Modes :
              /\ Len(validation_results[m]) = Len(ListedRegistered(m))
              /\ \A i \in 1..Len(validation_results[m]) :
                    validation_results[m][i].rule_name = ListedRegistered(m)[i]
        /\ Cardinality({i \in 1..Len(calls) : calls[i] = "validate"})
              = Len(ListedRegistered("Strict"))
        /\ epc = "done" =>
              \A m \in Modes :
                 \/ eresult[m].ok
                 \/ /\ eresult[m].error.kind = "validation_failed"
                    /\ Failing(validation_results[m]) # {}

\* the list names an unknown rule before capacity_check: the call returned with
\* the one result of capacity_check
C16_Witness ==
    /\ Validated
    /\ config.validation_rules = <<"no_such_rule", "capacity_check">>
    /\ Len(validation_results["Permissive"]) = 1
    /\ validation_results["Permissive"][1].rule_name = "capacity_check"
    /\ eresult["Permissive"].ok
    /\ eresult["Permissive"].result.validation_results = validation_results["Permissive"]

----------------------------------------------------------------------------
(* Confidence *)

InUnitInterval(x) == FracLe(Frac(0, 1), x) /\ FracLe(x, Frac(1, 1))

\* C17: every Assignment a strategy returns under a configuration its
\* validate_config accepts has a confidence within 0.0..=1.0.
C17_ConfidenceInUnitInterval ==
    (StrategyReturned /\ strategy_validate_config(strategy_name, config).ok) =>
        \A i \in 1..Len(sresult.assignments) :
            InUnitInterval(sresult.assignments[i].confidence)

----------------------------------------------------------------------------
(* Rotation score *)

FracEq(x, y) == x.num * y.den = y.num * x.den

\* the history of a participant, empty when the map has no entry
HistoryOf(pid) == IF pid \in DOMAIN bhistory THEN bhistory[pid] ELSE <<>>

\* the entries of h within the window of the last ten all name the target
RecentAllEqual(h, target_name) ==
    /\ h # <<>>
    /\ \A k \in (Len(h) - Min(Len(h), 10) + 1)..Len(h) : h[k] = target_name

\* C18: for every participant balanced rotation assigned to a target, the
\* rotation score of that pair is 1.0 when the participant has no history
\* (no entry, or an empty one) and 0.0 when the last entries of the history
\* all name the target, whatever the length of the history.
C18_RotationScoreEnds ==
    (StrategyReturned /\ strategy_name = "balanced_rotation") =>
        \A i \in 1..Len(sresult.assignments) :
            \A k \in 1..Len(targets) :
                targets[k].id = sresult.assignments[i].target_id =>
                    LET pid == sresult.assignments[i].participant_id
                        target_name == targets[k].name.v
                        score == rotation_score(bhistory, pid, target_name)
                    IN  /\ HistoryOf(pid) = <<>> => FracEq(score, Frac(1, 1))
                        /\ RecentAllEqual(HistoryOf(pid), target_name) =>
                              FracEq(score, Frac(0, 1))

----------------------------------------------------------------------------
(* Capacity check *)

CapacityReturned == program = "capacity_check" /\ spc = "done" /\ sresult.ok

\* the places target t asks for: required_count, 1 when the attribute is absent
Required(t) == IF t.required_count.some THEN t.required_count.v ELSE 1

OverAssigned == {j \in 1..Len(targets) : AssignedTo(assignments, targets[j].id) > Required(targets[j])}
UnderAssigned == {j \in 1..Len(targets) : AssignedTo(assignments, targets[j].id) < Required(targets[j])}

\* the strict flag of the call: true unless it is given as false
StrictFlag ==
    ~config.strict["capacity_check"].some \/ config.strict["capacity_check"].v

\* C19: the capacity validator reports passed = false whenever a target has more
\* assignments than its required_count, whatever the strict flag; a target with
\* fewer makes it report passed = false only when strict is true (the default
\* when the flag is absent); with strict = false under-assignment alone leaves
\* passed = true.
C19_CapacityPassed ==
    CapacityReturned =>
        /\ OverAssigned # {} => ~sresult.result.passed
        /\ (OverAssigned = {} /\ UnderAssigned # {}) => (sresult.result.passed <=> ~StrictFlag)
        /\ (OverAssigned = {} /\ UnderAssigned = {}) => sresult.result.passed

\* strict = false, one target over-assigned and the other under-assigned: passed
\* is false
C19_Witness ==
    /\ CapacityReturned
    /\ config.strict["capacity_check"] = Some(FALSE)
    /\ OverAssigned # {} /\ UnderAssigned # {}
    /\ ~sresult.result.passed

\* C20: with strict = false, a target under-assigned by 1 and no target
\* over-assigned, the ValidationResult has passed = true, severity Warning, and
\* a message that mentions the shortfall of that target.
C20_ShortfallInMessage ==
    (/\ CapacityReturned
     /\ config.strict["capacity_check"] = Some(FALSE)
     /\ OverAssigned = {}
     /\ \E j \in UnderAssigned :
           AssignedTo(assignments, targets[j].id) = Required(targets[j]) - 1) =>
        /\ sresult.result.passed
        /\ sresult.result.severity = "Warning"
        /\ \A j \in UnderAssigned :
              AssignedTo(assignments, targets[j].id) = Required(targets[j]) - 1 =>
                 \E k \in 1..Len(sresult.result.message.items) :
                    /\ sresult.result.message.items[k].target = target_label(targets[j])
                    /\ sresult.result.message.items[k].assigned
                          = AssignedTo(assignments, targets[j].id)
                    /\ sresult.result.message.items[k].required = Required(targets[j])

----------------------------------------------------------------------------
(* Availability check *)

AvailabilityReturned == program = "availability_check" /\ spc = "done" /\ sresult.ok

\* the assignments whose participant carries availability = false
OfUnavailable ==
    SelectSeq(assignments,
              LAMBDA a : \E k \in 1..Len(participants) :
                            /\ participants[k].id = a.participant_id
                            /\ participants[k].availability = Some(FALSE))

\* C21: the availability validator flags every assignment whose participant has
\* availability = false, and no other (a participant without the attribute
\* counts as available); passed is false exactly when there is such an
\* assignment; the severity is Error when strict is set and Warning otherwise,
\* strict being false when the flag is absent.
C21_AvailabilityFlags ==
    AvailabilityReturned =>
        /\ sresult.result.passed <=> OfUnavailable = <<>>
        /\ Len(sresult.result.message.items) = Len(OfUnavailable)
        /\ \A i \in 1..Len(OfUnavailable) :
              sresult.result.message.items[i].participant = OfUnavailable[i].participant_id
        /\ sresult.result.severity =
              (IF config.strict["availability_check"] = Some(TRUE) THEN "Error" ELSE "Warning")

\* no strict flag; of two assignments one names a participant with
\* availability = false, the other a participant without the attribute
C21_Witness ==
    /\ AvailabilityReturned
    /\ config.strict["availability_check"] = None
    /\ Len(assignments) = 2 /\ Len(OfUnavailable) = 1
    /\ \E k \in 1..Len(participants) : participants[k].availability = None
                                        /\ participants[k].id = assignments[1].participant_id
    /\ ~sresult.result.passed /\ sresult.result.severity = "Warning"

----------------------------------------------------------------------------
(* Skill matching check *)

SkillMatchingReturned == program = "skill_matching" /\ spc = "done" /\ sresult.ok

\* the skills of the required ones that the participant of assignment a has
Matched(a) ==
    UNION { participants[k].skills \cap targets[j].required_skills :
              k \in {k \in 1..Len(participants) : participants[k].id = a.participant_id},
              j \in {j \in 1..Len(targets) : targets[j].id = a.target_id} }

RequiredOf(a) ==
    UNION { targets[j].required_skills :
              j \in {j \in 1..Len(targets) : targets[j].id = a.target_id} }

\* the assignments whose target requires skills of which the participant has
\* fewer than half
LowMatches ==
    SelectSeq(assignments,
              LAMBDA a : /\ RequiredOf(a) # {}
                         /\ 2 * Cardinality(Matched(a)) < Cardinality(RequiredOf(a)))

\* C22: the skill-matching validator records an issue for exactly the
\* assignments whose target has required skills and whose participant matches
\* fewer than half of them; the severity is Error with strict and issues,
\* Warning with issues and no strict, Info without issues; passed is false only
\* with strict and issues.
C22_SkillMatchingIssues ==
    SkillMatchingReturned =>
        /\ Len(sresult.result.message.items) = Len(LowMatches)
        /\ \A i \in 1..Len(LowMatches) :
              /\ sresult.result.message.items[i].participant = LowMatches[i].participant_id
              /\ sresult.result.message.items[i].target = LowMatches[i].target_id
        /\ sresult.result.severity =
              (IF LowMatches = <<>> THEN "Info"
               ELSE IF config.strict["skill_matching"] = Some(TRUE) THEN "Error"
               ELSE "Warning")
        /\ ~sresult.result.passed <=>
              (config.strict["skill_matching"] = Some(TRUE) /\ LowMatches # <<>>)

\* strict is set; one participant has exactly half of the required skills and
\* raises no issue, another has fewer and raises one: Error, not passed
C22_Witness ==
    /\ SkillMatchingReturned
    /\ config.strict["skill_matching"] = Some(TRUE)
    /\ Len(assignments) = 2 /\ Len(LowMatches) = 1
    /\ \E i \in 1..2 : 2 * Cardinality(Matched(assignments[i]))
                            = Cardinality(RequiredOf(assignments[i]))
    /\ ~sresult.result.passed /\ sresult.result.severity = "Error"

----------------------------------------------------------------------------
(* Skill-based strategy *)

\* the assignments of the returned list that go to target j
AssignmentsTo(j) ==
    SelectSeq(sresult.assignments, LAMBDA a : a.target_id = targets[j].id)

\* how many of the skills target j requires the participant with this id has
OverlapWith(pid, j) ==
    Cardinality(UNION { participants[k].skills \cap targets[j].required_skills :
                           k \in {k \in 1..Len(participants) : participants[k].id = pid} })

\* C23: the skill-based strategy gives each target the candidates with the
\* highest count of overlapping required skills, in descending order and up to
\* required_count, each with confidence matched / required; a target that
\* declares no required skills still receives candidates, each with
\* confidence 0.5.
C23_SkillRanking ==
    (StrategyReturned /\ strategy_name = "skill_based") =>
        \A j \in 1..Len(targets) :
            LET mine == AssignmentsTo(j)
                req == targets[j].required_skills
                chosen == {mine[i].participant_id : i \in 1..Len(mine)}
            IN  /\ Len(mine) <= (IF targets[j].required_count.some
                                  THEN targets[j].required_count.v ELSE 1)
                /\ \A i \in 1..Len(mine) :
                      /\ FracEq(mine[i].confidence,
                                IF req = {} THEN Frac(1, 2)
                                ELSE Frac(OverlapWith(mine[i].participant_id, j),
                                          Cardinality(req)))
                      /\ \A h \in 1..(i - 1) :
                            OverlapWith(mine[h].participant_id, j)
                               >= OverlapWith(mine[i].participant_id, j)
                      /\ \A q \in ids(participants) \ chosen :
                            OverlapWith(q, j) <= OverlapWith(mine[i].participant_id, j)
                /\ (req = {} /\ participants # <<>>) => mine # <<>>

(***************************************************************************)
(* perform_distribution: persistence, notification and the schedule        *)
(***************************************************************************)

CalledBefore(f, g) ==
    \E i \in 1..Len(ccalls), j \in 1..Len(ccalls) :
        i < j /\ ccalls[i] = f /\ ccalls[j] = g

\* C25: save_assignments is called only after an attempt of the loop succeeded,
\* with the assignments of exactly that attempt, which is the last one made; it
\* is never called when every attempt failed; send_notification is called only
\* after save_assignments, and only when that save succeeded.
C25_SaveAfterSolving ==
    program = "caller" =>
        /\ ("save_assignments" \in Range(ccalls)) <=> save_arg.some
        /\ save_arg.some =>
              /\ final_assignments.some
              /\ save_arg.v = final_assignments.v
              /\ save_arg.v.attempt = dcalls
              /\ cpc = "done"
        /\ ~final_assignments.some => "save_assignments" \notin Range(ccalls)
        /\ ("send_notification" \in Range(ccalls)) =>
              /\ CalledBefore("save_assignments", "send_notification")
              /\ cresult = [ok |-> TRUE, v |-> TRUE]

C25_Witness ==
    /\ program = "caller" /\ cpc = "done"
    /\ dcalls = 2
    /\ save_arg = [some |-> TRUE, v |-> [attempt |-> 2]]
    /\ CalledBefore("save_assignments", "send_notification")

\* the interval has not elapsed: there is a last run, less than interval_days
\* whole days ago
IntervalNotElapsed ==
    cenv.since.some /\ cenv.since.v < 2 * cenv.interval

\* C30: every database read succeeding, perform_distribution with force unset
\* and the interval not elapsed returns Ok(false) and calls none of
\* distribute_work, save_assignments and send_notification; with force set it
\* never calls should_run, never returns Ok(false), and goes on to the solving
\* loop (a database read that fails returns its error instead).
C30_ForceSkipsSchedule ==
    program = "caller" =>
        /\ (~cenv.force /\ IntervalNotElapsed) =>
              /\ dcalls = 0
              /\ "save_assignments" \notin Range(ccalls)
              /\ "send_notification" \notin Range(ccalls)
              /\ cpc \in {"start", "schedule", "done"}
              /\ cpc = "done" =>
                    \/ cresult = [ok |-> TRUE, v |-> FALSE]
                    \/ /\ ~cresult.ok
                       /\ cresult.error.kind \in
                             {"fetch_settings_failed", "schedule_check_failed"}
        /\ cenv.force =>
              /\ "should_run" \notin Range(ccalls)
              /\ cresult # [ok |-> TRUE, v |-> FALSE]
              /\ (cpc = "done" /\ dcalls = 0) =>
                    /\ ~cresult.ok
                    /\ cresult.error.kind \in
                          {"fetch_settings_failed", "fetch_people_failed",
                           "fetch_history_failed"}

C30_Witness ==
    /\ program = "caller"
    /\ cenv.force /\ IntervalNotElapsed
    /\ dcalls > 0

(***************************************************************************)
(* The history lookback                                                    *)
(***************************************************************************)

\* the task names of the two newest of a set of rows, newest first
RECURSIVE NewestTasks(_, _)
NewestTasks(rows, k) ==
    IF rows = {} \/ k = 0 THEN <<>>
    ELSE LET r == CHOOSE x \in rows : \A y \in rows : y.assigned_at <= x.assigned_at
         IN  <<r.task_name>> \o NewestTasks(rows \ {r}, k - 1)

\* C24: after any sequence of save_history calls from an empty history, every
\* person's list is at most 2 long and holds the areas of that person's newest
\* saves, newest first; fetch_history gives every person with an id at most 2
\* task names, those of the person's newest rows, newest first, and nothing
\* to anyone else.
C24_HistoryBounded ==
    /\ program = "history_file" =>
          \A p \in DOMAIN hfile :
              /\ Len(hfile[p]) <= 2
              /\ hfile[p] = NewestTasks({r \in hrows : r.person = p}, 2)
    /\ (program = "history_db" /\ fetched.some) =>
          \A p \in DOMAIN fetched.history_map :
              /\ Len(fetched.history_map[p]) <= 2
              /\ fetched.history_map[p] =
                    IF p \in DOMAIN fetched.name_to_id
                    THEN NewestTasks({r \in hrows :
                                         r.person_id = fetched.name_to_id[p]}, 2)
                    ELSE <<>>

C24_Witness ==
    /\ program = "history_file"
    /\ hsaves = 3
    /\ Cardinality({r \in hrows : r.person = "p1"}) = 3
    /\ Len(hfile["p1"]) = 2

(***************************************************************************)
(* generate_assignments and the entity store                               *)
(***************************************************************************)

\* C26: the participants and the targets that generate_assignments gives to
\* execute_assignment are those of one single state of the entity store: there
\* is a value the store has had of which the participants read are the Active
\* participants and the targets read are the Active targets.
C26_OneStoreState ==
    (program = "store" /\ handed.some) =>
        \E store \in seen :
            /\ g_participants = list_entities(store, "participant")
            /\ g_targets = list_entities(store, "assignment_target")

(***************************************************************************)
(* Repeated runs                                                           *)
(***************************************************************************)

\* C27: a strategy run again on the same participants, targets, history and
\* config returns the same set of assignments: whatever a call of execute
\* returned, every call execute can make on those inputs returns that set.
\* (execute takes no random source; the inputs are all the caller can fix.)
C27_SameInputsSameAssignments ==
    StrategyReturned =>
        \A out \in strategy_execute(strategy_name, participants, targets, config, bhistory) :
            out.ok => Range(out.assignments) = Range(sresult.assignments)

(***************************************************************************)
(* The shuffle and the success of a balanced attempt                       *)
(***************************************************************************)

\* every target is well formed and the participants cover the required counts
Fits ==
    /\ WellFormedTargets
    /\ SumRequired(targets, 1) <= Len(participants)

DistinctIds == Cardinality(ids(participants)) = Len(participants)

\* what C28 says of a run of balanced rotation, stepwise or inside
\* execute_assignment: a returned Ok was made on attempt 1 and the input fits;
\* exhausted attempts were max_attempts many and the input does not fit; a
\* second attempt is only ever made on an input that does not fit
ShuffleBlind ==
    /\ (program = "strategy" /\ strategy_name = "balanced_rotation") =>
          /\ attempt > 1 => ~Fits
          /\ (spc = "done" /\ sresult.ok) => (Fits /\ attempt = 1)
          /\ (spc = "done" /\ ~sresult.ok /\ sresult.error.kind = "attempts_exhausted") =>
                (~Fits /\ attempt = get_max_attempts(config))
    /\ (program = "engine" /\ strategy_name = "balanced_rotation") =>
          /\ eassignments.some => (Fits /\ eattempts = 1)
          /\ (epc = "done" /\ ~eassignments.some
                /\ eresult["Strict"].error.kind = "attempts_exhausted") =>
                (~Fits /\ eattempts = get_max_attempts(config))

UnavailableAssigned ==
    /\ eassignments.some
    /\ \E i \in 1..Len(eassignments.v), k \in 1..Len(participants) :
          /\ participants[k].id = eassignments.v[i].participant_id
          /\ participants[k].availability = Some(FALSE)

\* the results of the Strict engine that come from availability_check
AvailabilityResults ==
    {i \in 1..Len(validation_results["Strict"]) :
        validation_results["Strict"][i].rule_name = "availability_check"}

====
